---- MODULE Spec2Model ----
(***************************************************************************)
(* Model of the in-memory world state kept by tools/llm_tools_server.py:  *)
(* the session store, the per-session locks, the global event-id counter, *)
(* the deterministic tile generator and the tool handlers that act on     *)
(* them.                                                                   *)
(*                                                                         *)
(* Conventions                                                             *)
(*   - a Python dict is a TLA+ function, a list a sequence;                *)
(*   - _coord_key's string "x,y,z" is the tuple <<x, y, z>>;               *)
(*   - formatted strings keep their parts as a tuple;                      *)
(*   - uuid.uuid4() is a fresh number (uuids counts the draws); the six    *)
(*     hex digits spawn_npc keeps of one can repeat, which is the action   *)
(*     SpawnNpcRepeat;                                                     *)
(*   - the "ts" field of an event is left out: nothing reads it.           *)
(***************************************************************************)
EXTENDS Integers, Sequences, FiniteSets, TLC

VARIABLES
    SESSIONS,           \* _SESSIONS: session id -> session state
    ACTIVE_SESSION_ID,  \* _ACTIVE_SESSION_ID (None when unset)
    SESSION_LOCKS,      \* _SESSION_LOCKS: session id -> holder (0 = free)
    NEXT_EVENT_ID,      \* _NEXT_EVENT_ID
    uuids,              \* number of uuid4() values drawn so far
    ret,                \* what the last completed call returned or raised
    pre,                \* the addressed session's state when that call began
    issued,             \* event ids in the order _append_event issued them
    known,              \* session ids some completed call has returned
    calls,              \* handler invocations made by the threads so far
    pc,                 \* per thread: the statement it is about to execute
    loc,                \* per thread: the locals of the running handler
    clock,              \* wall clock (time.time())
    globalRng,          \* state of the module-level random generator
    genLog,             \* results of direct _generate_tile calls
    dice,               \* the notation handed to the dice functions
    COMBAT,             \* session id -> combat sub-state of the session
    last_d20_roll       \* the command loop's remembered d20 roll

vars == <<SESSIONS, ACTIVE_SESSION_ID, SESSION_LOCKS, NEXT_EVENT_ID, uuids,
          ret, pre, issued, known, calls, pc, loc, clock, globalRng, genLog, dice, COMBAT, last_d20_roll>>

\* Python's None: as a string, as a session id, as a name
None == "None"
NoSid == 0

\* player_roll=None, last_d20_roll = None
NoRoll == 0

-----------------------------------------------------------------------------
(* Bounds of the model *)

MaxSessions == 2    \* start_session calls
MaxEventId == 3     \* events issued
MaxCoord == 1       \* coordinates stay within -MaxCoord..MaxCoord
MaxNpcs == 1        \* NPCs spawned, all sessions together
MaxClock == 2       \* wall-clock values
MaxGenCalls == 2    \* recorded direct _generate_tile calls
MaxGenSid == 2      \* session ids fed to _generate_tile directly
MaxRolls == 2       \* draws from the module-level random generator
PlayedTurns == 7
PlayedNotes == 31
LoggedNotes == 4998
NumThreads == 2     \* concurrent callers
MaxCalls == 3       \* handler invocations by the concurrent callers
MaxEnemies == 2     \* enemies of an encounter
EnemyHp == 3        \* HP of a generated enemy
MaxAttacks == 2     \* attacks that roll the attack die

-----------------------------------------------------------------------------
(* Directions *)

_BASE_DIRECTIONS == {"north", "south", "east", "west", "up", "down"}

\* variant of the table with the sign of south flipped
DeltasSouthFlipped ==
    [d \in {"north", "south", "east", "west", "up", "down"} |->
        CASE d = "north" -> <<0, 1, 0>>
          [] d = "south" -> <<0, 1, 0>>
          [] d = "east"  -> <<1, 0, 0>>
          [] d = "west"  -> <<-1, 0, 0>>
          [] d = "up"    -> <<0, 0, 1>>
          [] d = "down"  -> <<0, 0, -1>>]

_DELTAS ==
    [d \in _BASE_DIRECTIONS |->
        CASE d = "north" -> <<0, 1, 0>>
          [] d = "south" -> <<0, -1, 0>>
          [] d = "east"  -> <<1, 0, 0>>
          [] d = "west"  -> <<-1, 0, 0>>
          [] d = "up"    -> <<0, 0, 1>>
          [] d = "down"  -> <<0, 0, -1>>]

_DIR_ALIASES ==
    [a \in {"n", "s", "e", "w", "u", "d"} |->
        CASE a = "n" -> "north"
          [] a = "s" -> "south"
          [] a = "e" -> "east"
          [] a = "w" -> "west"
          [] a = "u" -> "up"
          [] a = "d" -> "down"]

_TURN_JOURNAL_ROLLUP_INTERVAL == 8
_JOURNAL_MAX_ENTRIES == 32
EVENTS_CEILING == 5000
EVENTS_KEEP == 4000

\* variant of the compass order that runs counter-clockwise
CompassCounterClockwise == <<"north", "west", "south", "east">>

compass == <<"north", "east", "south", "west">>

CompassIndex(h) ==
    IF \E i \in 1..4 : compass[i] = h
    THEN (CHOOSE i \in 1..4 : compass[i] = h) - 1
    ELSE 0

\* variant of the token clean-up in which an empty token means "forward"
StripLowerDefaulting(direction) ==
    CASE direction = " North " -> "north"
      [] direction = "" -> "forward"
      [] OTHER -> direction

\* direction.strip().lower() on the tokens the model feeds to move
StripLower(direction) ==
    CASE direction = " North " -> "north"
      [] OTHER -> direction

\* the tokens the callers of the model pass to move
MoveInputs ==
    {"north", "south", "east", "west", "up", "down", "n",
     "forward", "back", "left", "right", " North ", "jump", ""}

\* variant of _normalize_direction whose "back" turns a quarter instead of
\* a half
NormalizeDirectionBackQuarter(direction, heading) ==
    LET s0 == StripLower(direction)
        s == IF s0 \in DOMAIN _DIR_ALIASES THEN _DIR_ALIASES[s0] ELSE s0
        idx == CompassIndex(heading)
    IN  IF s \in _BASE_DIRECTIONS
        THEN IF s \in {"north", "south", "east", "west"}
             THEN [ok |-> TRUE, abs_dir |-> s, heading |-> s]
             ELSE [ok |-> TRUE, abs_dir |-> s, heading |-> heading]
        ELSE IF s \in {"forward", "ahead"}
        THEN [ok |-> TRUE, abs_dir |-> compass[idx + 1],
              heading |-> compass[idx + 1]]
        ELSE IF s \in {"back", "backward", "reverse"}
        THEN [ok |-> TRUE, abs_dir |-> compass[((idx + 1) % 4) + 1],
              heading |-> compass[((idx + 1) % 4) + 1]]
        ELSE IF s \in {"left"}
        THEN [ok |-> TRUE, abs_dir |-> compass[((idx - 1) % 4) + 1],
              heading |-> compass[((idx - 1) % 4) + 1]]
        ELSE IF s \in {"right"}
        THEN [ok |-> TRUE, abs_dir |-> compass[((idx + 1) % 4) + 1],
              heading |-> compass[((idx + 1) % 4) + 1]]
        ELSE [ok |-> FALSE, abs_dir |-> None, heading |-> heading]

\* _normalize_direction: <<absolute direction, new heading>>, or the
\* ValueError it raises
NormalizeDirection(direction, heading) ==
    LET s0 == StripLower(direction)
        s == IF s0 \in DOMAIN _DIR_ALIASES THEN _DIR_ALIASES[s0] ELSE s0
        idx == CompassIndex(heading)
    IN  IF s \in _BASE_DIRECTIONS
        THEN IF s \in {"north", "south", "east", "west"}
             THEN [ok |-> TRUE, abs_dir |-> s, heading |-> s]
             ELSE [ok |-> TRUE, abs_dir |-> s, heading |-> heading]
        ELSE IF s \in {"forward", "ahead"}
        THEN [ok |-> TRUE, abs_dir |-> compass[idx + 1],
              heading |-> compass[idx + 1]]
        ELSE IF s \in {"back", "backward", "reverse"}
        THEN [ok |-> TRUE, abs_dir |-> compass[((idx + 2) % 4) + 1],
              heading |-> compass[((idx + 2) % 4) + 1]]
        ELSE IF s \in {"left"}
        THEN [ok |-> TRUE, abs_dir |-> compass[((idx - 1) % 4) + 1],
              heading |-> compass[((idx - 1) % 4) + 1]]
        ELSE IF s \in {"right"}
        THEN [ok |-> TRUE, abs_dir |-> compass[((idx + 1) % 4) + 1],
              heading |-> compass[((idx + 1) % 4) + 1]]
        ELSE [ok |-> FALSE, abs_dir |-> None, heading |-> heading]

_coord_key(x, y, z) == <<x, y, z>>

-----------------------------------------------------------------------------
(* Tile generator                                                          *)
(*                                                                         *)
(* The seed is the first 64 bits of SHA-256 of "sid:x,y,z" and the draws  *)
(* come from a Mersenne Twister seeded with it.  The model keeps what the *)
(* code relies on - the seed is a function of (sid, x, y, z), the         *)
(* generator is private to the call and is consumed in a fixed order -    *)
(* with a 16-bit mixing function for the hash and a 16-bit linear         *)
(* congruential generator for the twister.                                *)

SeedSpace == 65536

_seed_for_tile(session_id, x, y, z) ==
    (session_id * 7919 + (x + 8) * 4099 + (y + 8) * 523 + (z + 8) * 61
       + 1499) % SeedSpace

\* one step of the generator's state
RngNext(s) == (s * 25173 + 13849) % SeedSpace

\* rng.random() scaled to a percentage 0..99
RngPercent(s) == (s \div 16) % 100

\* rng.choice(seq)
RngChoice(s, seq) == seq[((s \div 16) % Len(seq)) + 1]

\* rng.randint(a, b)
RngRandint(s, a, b) == a + ((s \div 16) % (b - a + 1))

Biomes == <<"ruined_keep", "crypt", "cavern", "armory", "library",
            "underground_river">>
Lightings == <<"dark", "dim", "torchlit", "glimmering">>
EntityKinds == <<"goblin", "skeleton", "bat", "kobold", "slime">>
Dispositions == <<"hostile", "wary", "indifferent">>
ItemKinds == <<"scroll", "rusty_blade", "torch", "amulet", "potion">>
Cardinals == <<"north", "east", "south", "west">>
HazardKinds == <<"loose_stones", "slick_moss", "unstable_beam">>

\* the four independent exit draws: the directions kept, and the
\* generator state after them
ExitDraws(s) ==
    LET s1 == RngNext(s)
        s2 == RngNext(s1)
        s3 == RngNext(s2)
        s4 == RngNext(s3)
        keep == <<RngPercent(s1) < 70, RngPercent(s2) < 70,
                  RngPercent(s3) < 70, RngPercent(s4) < 70>>
    IN  [exits |-> SelectSeq(Cardinals,
                        LAMBDA d : keep[CHOOSE i \in 1..4 : Cardinals[i] = d]),
         state |-> s4]

\* variant of the exit list without the forced exit
ExitsUnforced(s) == ExitDraws(s)

\* exits = [...] ; if not exits: exits = [rng.choice(...)]
ExitsFrom(s) ==
    LET dr == ExitDraws(s)
    IN  IF dr.exits = <<>>
        THEN [exits |-> <<RngChoice(RngNext(dr.state), Cardinals)>>,
              state |-> RngNext(dr.state)]
        ELSE dr

\* entities: presence, then kind, disposition and id number
DrawEntities(s) ==
    LET s1 == RngNext(s)
        s2 == RngNext(s1)
        s3 == RngNext(s2)
        s4 == RngNext(s3)
    IN  IF RngPercent(s1) < 50
        THEN [list |-> <<[id |-> [prefix |-> "e",
                                  base |-> [word |-> RngChoice(s2, EntityKinds),
                                            tag |-> 0],
                                  n |-> RngRandint(s4, 10, 999)],
                          kind |-> RngChoice(s2, EntityKinds),
                          disposition |-> RngChoice(s3, Dispositions),
                          name |-> [word |-> "None", tag |-> 0]]>>,
              state |-> s4]
        ELSE [list |-> <<>>, state |-> s1]

\* items: presence, then kind and id number
DrawItems(s) ==
    LET s1 == RngNext(s)
        s2 == RngNext(s1)
        s3 == RngNext(s2)
    IN  IF RngPercent(s1) < 50
        THEN [list |-> <<[id |-> [prefix |-> "it",
                                  base |-> [word |-> RngChoice(s2, ItemKinds),
                                            tag |-> 0],
                                  n |-> RngRandint(s3, 10, 999)],
                          kind |-> RngChoice(s2, ItemKinds)]>>,
              state |-> s3]
        ELSE [list |-> <<>>, state |-> s1]

\* hazards: presence, then kind
DrawHazards(s) ==
    LET s1 == RngNext(s)
        s2 == RngNext(s1)
    IN  IF RngPercent(s1) < 30
        THEN [list |-> <<RngChoice(s2, HazardKinds)>>, state |-> s2]
        ELSE [list |-> <<>>, state |-> s1]

\* the generator's state when the exit draws begin
ExitRngState(seed) ==
    DrawItems(DrawEntities(RngNext(RngNext(seed))).state).state

\* the body of _generate_tile after the seed: biome, lighting, entities,
\* items, exits, hazards, salient facts, drawn in this order
TileFromSeed(seed) ==
    LET s1 == RngNext(seed)
        biome == RngChoice(s1, Biomes)
        s2 == RngNext(s1)
        lighting == RngChoice(s2, Lightings)
        en == DrawEntities(s2)
        it == DrawItems(en.state)
        ex == ExitsFrom(it.state)
        hz == DrawHazards(ex.state)
        entities == en.list
        items == it.list
        hazards == hz.list
        salient_facts ==
            <<<<"atmosphere", lighting, biome>>>>
            \o (IF entities # <<>>
                THEN <<<<"entity", entities[1].kind, entities[1].disposition>>>>
                ELSE <<>>)
            \o (IF items # <<>>
                THEN <<<<"item", items[1].kind>>>>
                ELSE <<>>)
            \o (IF hazards # <<>>
                THEN <<<<"hazard", hazards[1]>>>>
                ELSE <<>>)
    IN  [seed |-> seed,
         tile |-> [biome |-> biome, lighting |-> lighting,
                   entities |-> entities, items |-> items,
                   exits |-> ex.exits, hazards |-> hazards],
         salient_facts |-> salient_facts]

\* variant of _generate_tile whose seed also takes in the wall clock
GenerateTileAtClock(session_id, x, y, z) ==
    TileFromSeed((_seed_for_tile(session_id, x, y, z) + clock) % SeedSpace)

_generate_tile(session_id, x, y, z) ==
    TileFromSeed(_seed_for_tile(session_id, x, y, z))

-----------------------------------------------------------------------------
(* Session state helpers *)

SetDefault(f, k, v) == IF k \in DOMAIN f THEN f ELSE f @@ (k :> v)

Pos(x, y, z) == [x |-> x, y |-> y, z |-> z]

\* variant of _ensure_tile that generates the tile on every call
EnsureTileRegenerating(session, x, y, z) ==
    [session EXCEPT !.tiles =
        (_coord_key(x, y, z) :> _generate_tile(session.session_id, x, y, z))
            @@ @]

\* _ensure_tile: the session with the tile at (x, y, z) cached
_ensure_tile(session, x, y, z) ==
    LET key == _coord_key(x, y, z)
    IN  IF key \in DOMAIN session.tiles
        THEN session
        ELSE [session EXCEPT !.tiles =
                 @ @@ (key :> _generate_tile(session.session_id, x, y, z))]

TileAt(session, x, y, z) == _ensure_tile(session, x, y, z).tiles[_coord_key(x, y, z)]

LastN(seq, n) ==
    IF Len(seq) <= n THEN seq ELSE SubSeq(seq, Len(seq) - n + 1, Len(seq))

\* variant of the list part of _append_event that keeps the oldest events
AppendEventKeepingOldest(session, eid, event_type, payload) ==
    LET appended == Append(session.events,
                           [event_id |-> eid, type |-> event_type,
                            payload |-> payload])
    IN  [session EXCEPT !.events =
            IF Len(appended) > EVENTS_CEILING
            THEN SubSeq(appended, 1, EVENTS_KEEP)
            ELSE appended]

\* the list part of _append_event: append, then cap
AppendEventTo(session, eid, event_type, payload) ==
    LET appended == Append(session.events,
                           [event_id |-> eid, type |-> event_type,
                            payload |-> payload])
    IN  [session EXCEPT !.events =
            IF Len(appended) > EVENTS_CEILING
            THEN LastN(appended, EVENTS_KEEP)
            ELSE appended]

FirstN(seq, n) == IF Len(seq) <= n THEN seq ELSE SubSeq(seq, 1, n)

\* variant of the journal cap that keeps the oldest entries
CapJournalKeepingOldest(journal) ==
    IF Len(journal) > _JOURNAL_MAX_ENTRIES
    THEN SubSeq(journal, 1, _JOURNAL_MAX_ENTRIES)
    ELSE journal

\* del journal[: max(0, len(journal) - _JOURNAL_MAX_ENTRIES)]
CapJournal(journal) ==
    IF Len(journal) > _JOURNAL_MAX_ENTRIES
    THEN LastN(journal, _JOURNAL_MAX_ENTRIES)
    ELSE journal

_rollup_journal(session) ==
    LET pos == session.position
        s1 == _ensure_tile(session, pos.x, pos.y, pos.z)
        tile == s1.tiles[_coord_key(pos.x, pos.y, pos.z)]
        summary == [kind |-> "rollup", turn |-> session.turn,
                    at |-> _coord_key(pos.x, pos.y, pos.z),
                    facts |-> FirstN(tile.salient_facts, 3)]
    IN  [s1 EXCEPT !.journal = CapJournal(Append(@, summary))]

\* variant of _new_session's state whose turn counter starts at 1
NewSessionStateTurnOne(session_id, theme, tone, max_words) ==
    _ensure_tile(
        [session_id |-> session_id,
         position |-> Pos(0, 0, 0),
         heading |-> "north",
         turn |-> 1,
         tiles |-> <<>>,
         events |-> <<>>,
         journal |-> <<>>,
         npcs |-> <<>>,
         settings |-> [theme |-> IF theme = None THEN "dungeon" ELSE theme,
                       tone |-> IF tone = None THEN "moody" ELSE tone,
                       max_narrative_words |->
                           IF max_words # 0 THEN max_words ELSE 80]],
        0, 0, 0)

\* the state _new_session builds before it registers it
NewSessionState(session_id, theme, tone, max_words) ==
    _ensure_tile(
        [session_id |-> session_id,
         position |-> Pos(0, 0, 0),
         heading |-> "north",
         turn |-> 0,
         tiles |-> <<>>,
         events |-> <<>>,
         journal |-> <<>>,
         npcs |-> <<>>,
         settings |-> [theme |-> IF theme = None THEN "dungeon" ELSE theme,
                       tone |-> IF tone = None THEN "moody" ELSE tone,
                       max_narrative_words |->
                           IF max_words # 0 THEN max_words ELSE 80]],
        0, 0, 0)

\* _public_tile_payload: the snapshot (the tile it reads is ensured first)
_public_tile_payload(session) ==
    LET pos == session.position
        tile == TileAt(session, pos.x, pos.y, pos.z)
    IN  [turn |-> session.turn,
         position |-> pos,
         tile |-> tile.tile,
         salient_facts |-> tile.salient_facts,
         exits |-> tile.tile.exits,
         heading |-> session.heading,
         session_id |-> session.session_id,
         max_narrative_words |-> session.settings.max_narrative_words]

\* variant of the payload's effect in which building it counts as a turn
AfterPayloadCountingTurn(session) ==
    [_ensure_tile(session, session.position.x, session.position.y,
                  session.position.z) EXCEPT !.turn = @ + 1]

\* the session after _public_tile_payload's _ensure_tile
AfterPayload(session) ==
    _ensure_tile(session, session.position.x, session.position.y,
                 session.position.z)

\* sid = session_id or _ACTIVE_SESSION_ID
ResolveSid(session_id) ==
    IF session_id # NoSid THEN session_id ELSE ACTIVE_SESSION_ID

\* not (not sid or sid not in _SESSIONS)
KnownSid(sid) == sid # NoSid /\ sid \in DOMAIN SESSIONS

NoSession == "No active session"

\* variant of the statements of move that leaves the turn counter alone
MoveStepKeepingTurn(session, nd) ==
    LET d == _DELTAS[nd.abs_dir]
        from_pos == session.position
        moved == [session EXCEPT
                    !.position = Pos(from_pos.x + d[1], from_pos.y + d[2],
                                     from_pos.z + d[3]),
                    !.heading = nd.heading]
    IN  _ensure_tile(moved, moved.position.x, moved.position.y,
                     moved.position.z)

\* the statements of move between "with lock" and the event append
MoveStep(session, nd) ==
    LET d == _DELTAS[nd.abs_dir]
        from_pos == session.position
        moved == [session EXCEPT
                    !.position = Pos(from_pos.x + d[1], from_pos.y + d[2],
                                     from_pos.z + d[3]),
                    !.heading = nd.heading,
                    !.turn = @ + 1]
    IN  _ensure_tile(moved, moved.position.x, moved.position.y,
                     moved.position.z)

MoveEventPayload(from_pos, session, nd) ==
    [from |-> from_pos, to |-> session.position, dir |-> nd.abs_dir,
     heading |-> nd.heading]

\* variant of the statements of move after the event append that rolls the
\* journal up on every turn
MoveFinishEveryTurn(session) ==
    AfterPayload(_rollup_journal(session))

\* the statements of move after the event append
MoveFinish(session) ==
    IF session.turn % _TURN_JOURNAL_ROLLUP_INTERVAL = 0
    THEN AfterPayload(_rollup_journal(session))
    ELSE AfterPayload(session)

InBounds(pos) ==
    /\ pos.x \in -MaxCoord..MaxCoord
    /\ pos.y \in -MaxCoord..MaxCoord
    /\ pos.z \in -MaxCoord..MaxCoord

-----------------------------------------------------------------------------
(* Narrative text: a text is its sequence of lines, a line its content,   *)
(* its length in characters and whether it is all whitespace              *)

TextLine(body, n, ws) == [body |-> body, len |-> n, ws |-> ws]

Text(lines) == [none |-> FALSE, lines |-> lines]
NoneText == [none |-> TRUE, lines |-> <<>>]

\* the texts the callers of the model pass to log_narrative
TextInputs ==
    {Text(<<>>),
     Text(<<TextLine("  ", 2, TRUE)>>),
     Text(<<TextLine("", 0, TRUE), TextLine("A door creaks.", 14, FALSE),
            TextLine("Dust falls.", 11, FALSE)>>)}

RECURSIVE DropLeadingBlank(_)
DropLeadingBlank(lines) ==
    IF lines = <<>> \/ ~lines[1].ws THEN lines
    ELSE DropLeadingBlank(Tail(lines))

RECURSIVE DropTrailingBlank(_)
DropTrailingBlank(lines) ==
    IF lines = <<>> \/ ~lines[Len(lines)].ws THEN lines
    ELSE DropTrailingBlank(SubSeq(lines, 1, Len(lines) - 1))

\* (text or "").strip().splitlines()
StrippedLines(text) ==
    IF text.none THEN <<>>
    ELSE DropTrailingBlank(DropLeadingBlank(text.lines))

\* line[:120]
Cut120(line) == [line EXCEPT !.len = IF @ > 120 THEN 120 ELSE @]

EventIdInputs == {0, 1}

-----------------------------------------------------------------------------
(* NPCs *)

NpcNames == {None, "Gruk"}
NpcKindInputs == {None, "goblin"}
SpawnKinds == <<"goblin", "skeleton", "kobold", "bandit", "slime">>

RECURSIVE XorBits(_, _, _)
XorBits(a, b, width) ==
    IF width = 0 THEN 0
    ELSE ((a + b) % 2) + 2 * XorBits(a \div 2, b \div 2, width - 1)

\* a ^ b on seeds
Xor(a, b) == XorBits(a, b, 16)

\* int(time.time()) as spawn_npc may read it
TimeInputs == 0..MaxClock

\* what spawn_npc draws from random.Random(seed ^ now): the kind (only
\* when none is given), then the armor class
SpawnDraws(session_id, pos, kind, now) ==
    LET s0 == Xor(_seed_for_tile(session_id, pos.x, pos.y, pos.z), now)
        s1 == RngNext(s0)
        s2 == IF kind # None THEN s1 ELSE RngNext(s1)
    IN  [kind |-> IF kind # None THEN kind ELSE RngChoice(s1, SpawnKinds),
         armor_class |-> RngRandint(s2, 10, 15)]

\* a display name: a given name, or "<Kind> <4 hex digits of a uuid4>"
GivenName(name) == [word |-> name, tag |-> 0]
GeneratedName(k, u) == [word |-> k, tag |-> u]

Lower(word) == IF word = "Gruk" THEN "gruk" ELSE word

\* _slugify_name on the names the model uses: lower case, joined by "_"
_slugify_name(nm) == [word |-> Lower(nm.word), tag |-> nm.tag]

\* ids of entities, items and NPCs: "<prefix>_<base>_<n>"
Id(prefix, base, n) == [prefix |-> prefix, base |-> base, n |-> n]

-----------------------------------------------------------------------------
(* What a call returned or raised *)

Returned(op, sid, arg, value) ==
    [op |-> op, sid |-> sid, arg |-> arg, ok |-> TRUE, value |-> value]

Raised(op, sid, arg, err, msg) ==
    [op |-> op, sid |-> sid, arg |-> arg, ok |-> FALSE, err |-> err,
     msg |-> msg]

Before(session) == [known |-> TRUE, session |-> session]

NoBefore == [known |-> FALSE]

Threads == 1..NumThreads

\* the locals of a thread that runs no handler
IdleLoc == [op |-> "none"]

UnknownSid == -1

\* the session_id arguments of the model's callers: none (the active
\* session), an id that was never issued, and an existing session
SidInputs == {NoSid, UnknownSid} \cup known

EventsLeft == Len(issued) < MaxEventId

Init ==
    /\ SESSIONS = <<>>
    /\ ACTIVE_SESSION_ID = NoSid
    /\ SESSION_LOCKS = <<>>
    /\ NEXT_EVENT_ID = 1
    /\ uuids = 0
    /\ ret = Returned("init", NoSid, None, None)
    /\ pre = NoBefore
    /\ issued = <<>>
    /\ known = {}
    /\ calls = 0
    /\ pc = [t \in Threads |-> "idle"]
    /\ loc = [t \in Threads |-> IdleLoc]
    /\ clock = 0
    /\ globalRng = [state |-> 0, draws |-> 0]
    /\ genLog = <<>>
    /\ dice = <<>>
    /\ COMBAT = <<>>
    /\ last_d20_roll = NoRoll

seqOnly == <<calls, pc, loc, clock, globalRng, genLog, dice, COMBAT, last_d20_roll>>
seqRead == <<known, calls, pc, loc, clock, globalRng, genLog, dice, COMBAT, last_d20_roll>>

-----------------------------------------------------------------------------
(* The tool handlers, one caller at a time: each action is a whole call *)

\* start_session: _new_session, then the active pointer, then the snapshot
\* variant of start_session that leaves an active session active
StartSessionKeepingActive(theme, tone, max_words) ==
    /\ Cardinality(DOMAIN SESSIONS) < MaxSessions
    /\ EventsLeft
    /\ LET session_id == uuids + 1
           state == AppendEventTo(
                        NewSessionState(session_id, theme, tone, max_words),
                        NEXT_EVENT_ID, "session_start",
                        [position |-> Pos(0, 0, 0)])
       IN  /\ uuids' = uuids + 1
           /\ SESSIONS' = (session_id :> AfterPayload(state)) @@ SESSIONS
           /\ SESSION_LOCKS' = SetDefault(SESSION_LOCKS, session_id, 0)
           /\ NEXT_EVENT_ID' = NEXT_EVENT_ID + 1
           /\ issued' = Append(issued, NEXT_EVENT_ID)
           /\ ACTIVE_SESSION_ID' = IF ACTIVE_SESSION_ID = NoSid
                                   THEN session_id ELSE ACTIVE_SESSION_ID
           /\ ret' = Returned("start_session", session_id, None,
                              _public_tile_payload(state))
           /\ pre' = NoBefore
           /\ known' = known \cup {session_id}
    /\ UNCHANGED <<calls, pc, loc, clock, globalRng, genLog, dice, COMBAT,
                   last_d20_roll>>

StartSession(theme, tone, max_words) ==
    /\ Cardinality(DOMAIN SESSIONS) < MaxSessions
    /\ EventsLeft
    /\ LET session_id == uuids + 1
           state == AppendEventTo(
                        NewSessionState(session_id, theme, tone, max_words),
                        NEXT_EVENT_ID, "session_start",
                        [position |-> Pos(0, 0, 0)])
       IN  /\ uuids' = uuids + 1
           /\ SESSIONS' = (session_id :> AfterPayload(state)) @@ SESSIONS
           /\ SESSION_LOCKS' = SetDefault(SESSION_LOCKS, session_id, 0)
           /\ NEXT_EVENT_ID' = NEXT_EVENT_ID + 1
           /\ issued' = Append(issued, NEXT_EVENT_ID)
           /\ ACTIVE_SESSION_ID' = session_id
           /\ ret' = Returned("start_session", session_id, None,
                              _public_tile_payload(state))
           /\ pre' = NoBefore
           /\ known' = known \cup {session_id}
    /\ UNCHANGED seqOnly

\* variant of the failed lookup in which the lock is looked up (and so
\* created) before the session id is checked
NotFoundAfterLock(op, session_id, arg) ==
    /\ ~(ResolveSid(session_id) # NoSid
          /\ ResolveSid(session_id) \in DOMAIN SESSIONS)
    /\ ret' = Raised(op, ResolveSid(session_id), arg, "ValueError",
                     "No active session")
    /\ pre' = NoBefore
    /\ SESSION_LOCKS' = IF ResolveSid(session_id) \in DOMAIN SESSION_LOCKS
                        THEN SESSION_LOCKS
                        ELSE SESSION_LOCKS @@ (ResolveSid(session_id) :> 0)
    /\ UNCHANGED <<SESSIONS, ACTIVE_SESSION_ID, NEXT_EVENT_ID, uuids, issued>>
    /\ UNCHANGED <<known, calls, pc, loc, clock, globalRng, genLog, dice, COMBAT, last_d20_roll>>

\* the calls that fail before any lock is looked up
NotFound(op, session_id, arg) ==
    /\ ~KnownSid(ResolveSid(session_id))
    /\ ret' = Raised(op, ResolveSid(session_id), arg, "ValueError", NoSession)
    /\ pre' = NoBefore
    /\ UNCHANGED <<SESSIONS, ACTIVE_SESSION_ID, SESSION_LOCKS, NEXT_EVENT_ID,
                   uuids, issued>>
    /\ UNCHANGED seqRead

\* variant of move that generates the destination tile for the payload
\* without keeping it in the cache
MoveWithoutCaching(direction, session_id) ==
    /\ KnownSid(ResolveSid(session_id))
    /\ LET sid == ResolveSid(session_id)
           session == SESSIONS[sid]
           nd == NormalizeDirection(direction, session.heading)
           d == _DELTAS[nd.abs_dir]
           moved == [session EXCEPT
                       !.position = Pos(session.position.x + d[1],
                                        session.position.y + d[2],
                                        session.position.z + d[3]),
                       !.heading = nd.heading,
                       !.turn = @ + 1]
           done == AppendEventTo(moved, NEXT_EVENT_ID, "move",
                       MoveEventPayload(session.position, moved, nd))
       IN  /\ nd.ok
           /\ EventsLeft
           /\ InBounds(moved.position)
           /\ pre' = Before(session)
           /\ SESSION_LOCKS' = SetDefault(SESSION_LOCKS, sid, 0)
           /\ SESSIONS' = [SESSIONS EXCEPT ![sid] = done]
           /\ NEXT_EVENT_ID' = NEXT_EVENT_ID + 1
           /\ issued' = Append(issued, NEXT_EVENT_ID)
           /\ ret' = Returned("move", sid, direction,
                              [snapshot |-> _public_tile_payload(done),
                               event_id |-> NEXT_EVENT_ID])
    /\ UNCHANGED <<ACTIVE_SESSION_ID, uuids>>
    /\ UNCHANGED <<known, calls, pc, loc, clock, globalRng, genLog, dice,
                   COMBAT, last_d20_roll>>

\* variant of move that refuses a direction the tile does not list as an
\* exit
MoveThroughExitsOnly(direction, session_id) ==
    /\ KnownSid(ResolveSid(session_id))
    /\ LET sid == ResolveSid(session_id)
           session == SESSIONS[sid]
           nd == NormalizeDirection(direction, session.heading)
           exits == TileAt(session, session.position.x, session.position.y,
                           session.position.z).tile.exits
       IN  /\ pre' = Before(session)
           /\ SESSION_LOCKS' = SetDefault(SESSION_LOCKS, sid, 0)
           /\ IF ~nd.ok \/ \A i \in 1..Len(exits) : exits[i] # nd.abs_dir
              THEN /\ ret' = Raised("move", sid, direction, "ValueError",
                                    "Unknown direction")
                   /\ UNCHANGED <<SESSIONS, NEXT_EVENT_ID, issued>>
              ELSE LET moved == MoveStep(session, nd)
                       done == MoveFinish(AppendEventTo(moved, NEXT_EVENT_ID,
                                   "move",
                                   MoveEventPayload(session.position, moved,
                                                    nd)))
                   IN  /\ EventsLeft
                       /\ InBounds(moved.position)
                       /\ SESSIONS' = [SESSIONS EXCEPT ![sid] = done]
                       /\ NEXT_EVENT_ID' = NEXT_EVENT_ID + 1
                       /\ issued' = Append(issued, NEXT_EVENT_ID)
                       /\ ret' = Returned("move", sid, direction,
                                     [snapshot |-> _public_tile_payload(done),
                                      event_id |-> NEXT_EVENT_ID])
    /\ UNCHANGED <<ACTIVE_SESSION_ID, uuids>>
    /\ UNCHANGED <<known, calls, pc, loc, clock, globalRng, genLog, dice,
                   COMBAT, last_d20_roll>>

\* variant of move with one turn counter for the whole store
MoveCountingEverywhere(direction, session_id) ==
    /\ KnownSid(ResolveSid(session_id))
    /\ LET sid == ResolveSid(session_id)
           session == SESSIONS[sid]
           nd == NormalizeDirection(direction, session.heading)
           moved == MoveStep(session, nd)
           done == MoveFinish(AppendEventTo(moved, NEXT_EVENT_ID, "move",
                       MoveEventPayload(session.position, moved, nd)))
       IN  /\ nd.ok
           /\ EventsLeft
           /\ InBounds(moved.position)
           /\ pre' = Before(session)
           /\ SESSION_LOCKS' = SetDefault(SESSION_LOCKS, sid, 0)
           /\ SESSIONS' = [s \in DOMAIN SESSIONS |->
                             IF s = sid THEN done
                             ELSE [SESSIONS[s] EXCEPT !.turn = done.turn]]
           /\ NEXT_EVENT_ID' = NEXT_EVENT_ID + 1
           /\ issued' = Append(issued, NEXT_EVENT_ID)
           /\ ret' = Returned("move", sid, direction,
                              [snapshot |-> _public_tile_payload(done),
                               event_id |-> NEXT_EVENT_ID])
    /\ UNCHANGED <<ACTIVE_SESSION_ID, uuids>>
    /\ UNCHANGED <<known, calls, pc, loc, clock, globalRng, genLog, dice,
                   COMBAT, last_d20_roll>>

Move(direction, session_id) ==
    \/ NotFound("move", session_id, direction)
    \/ /\ KnownSid(ResolveSid(session_id))
       /\ LET sid == ResolveSid(session_id)
              session == SESSIONS[sid]
              nd == NormalizeDirection(direction, session.heading)
          IN  /\ pre' = Before(session)
              /\ SESSION_LOCKS' = SetDefault(SESSION_LOCKS, sid, 0)
              /\ IF ~nd.ok
                 THEN /\ ret' = Raised("move", sid, direction, "ValueError",
                                       "Unknown direction")
                      /\ UNCHANGED <<SESSIONS, NEXT_EVENT_ID, issued>>
                 ELSE LET moved == MoveStep(session, nd)
                          logged == AppendEventTo(moved, NEXT_EVENT_ID, "move",
                                        MoveEventPayload(session.position,
                                                         moved, nd))
                          done == MoveFinish(logged)
                      IN  /\ EventsLeft
                          /\ InBounds(moved.position)
                          /\ SESSIONS' = [SESSIONS EXCEPT ![sid] = done]
                          /\ NEXT_EVENT_ID' = NEXT_EVENT_ID + 1
                          /\ issued' = Append(issued, NEXT_EVENT_ID)
                          /\ ret' = Returned("move", sid, direction,
                                 [snapshot |-> _public_tile_payload(done),
                                  event_id |-> NEXT_EVENT_ID])
       /\ UNCHANGED <<ACTIVE_SESSION_ID, uuids>>
       /\ UNCHANGED seqRead

Look(session_id) ==
    \/ NotFound("look", session_id, None)
    \/ /\ KnownSid(ResolveSid(session_id))
       /\ LET sid == ResolveSid(session_id)
              session == SESSIONS[sid]
          IN  /\ pre' = Before(session)
              /\ SESSION_LOCKS' = SetDefault(SESSION_LOCKS, sid, 0)
              /\ SESSIONS' = [SESSIONS EXCEPT ![sid] = AfterPayload(session)]
              /\ ret' = Returned("look", sid, None,
                                 _public_tile_payload(session))
       /\ UNCHANGED <<ACTIVE_SESSION_ID, NEXT_EVENT_ID, uuids, issued>>
       /\ UNCHANGED seqRead

\* the journal line log_narrative adds for a snippet
NarrativeLine(session, snippet) ==
    [kind |-> "narrative", turn |-> session.turn, snippet |-> snippet]

\* the statements of log_narrative after the event append, when
\* splitlines() has a first line
LogJournal(session, text) ==
    LET snippet == Cut120(StrippedLines(text)[1])
    IN  IF snippet.len > 0
        THEN [session EXCEPT
                !.journal = CapJournal(Append(@, NarrativeLine(session,
                                                               snippet)))]
        ELSE session

LogNarrative(text, event_id, session_id) ==
    \/ NotFound("log_narrative", session_id, None)
    \/ /\ KnownSid(ResolveSid(session_id))
       /\ event_id <= 0
       /\ ret' = Raised("log_narrative", ResolveSid(session_id),
                        None, "ValueError",
                        "event_id must be a positive integer")
       /\ pre' = Before(SESSIONS[ResolveSid(session_id)])
       /\ UNCHANGED <<SESSIONS, ACTIVE_SESSION_ID, SESSION_LOCKS,
                      NEXT_EVENT_ID, uuids, issued>>
       /\ UNCHANGED seqRead
    \/ /\ KnownSid(ResolveSid(session_id))
       /\ event_id > 0
       /\ EventsLeft
       /\ LET sid == ResolveSid(session_id)
              session == SESSIONS[sid]
              logged == AppendEventTo(session, NEXT_EVENT_ID, "narrative",
                            [event_id |-> event_id, text |-> text])
          IN  /\ pre' = Before(session)
              /\ SESSION_LOCKS' = SetDefault(SESSION_LOCKS, sid, 0)
              /\ NEXT_EVENT_ID' = NEXT_EVENT_ID + 1
              /\ issued' = Append(issued, NEXT_EVENT_ID)
              /\ IF StrippedLines(text) = <<>>
                 THEN \* splitlines() is empty: [0] raises
                      /\ SESSIONS' = [SESSIONS EXCEPT ![sid] = logged]
                      /\ ret' = Raised("log_narrative", sid,
                                       None, "IndexError",
                                       "list index out of range")
                 ELSE /\ SESSIONS' = [SESSIONS EXCEPT
                                        ![sid] = LogJournal(logged, text)]
                      /\ ret' = Returned("log_narrative", sid,
                                    None,
                                    [ok |-> TRUE,
                                     logged_event_id |-> NEXT_EVENT_ID])
       /\ UNCHANGED <<ACTIVE_SESSION_ID, uuids>>
       /\ UNCHANGED seqRead

Journal(session_id) ==
    \/ NotFound("journal", session_id, None)
    \/ /\ KnownSid(ResolveSid(session_id))
       /\ LET sid == ResolveSid(session_id)
              session == SESSIONS[sid]
          IN  /\ pre' = Before(session)
              /\ SESSION_LOCKS' = SetDefault(SESSION_LOCKS, sid, 0)
              /\ ret' = Returned("journal", sid, None,
                            [turn |-> session.turn,
                             summary |-> LastN(session.journal,
                                               _JOURNAL_MAX_ENTRIES)])
       /\ UNCHANGED <<SESSIONS, ACTIVE_SESSION_ID, NEXT_EVENT_ID, uuids,
                      issued>>
       /\ UNCHANGED seqRead

NpcCount ==
    Cardinality(UNION {DOMAIN SESSIONS[sid].npcs : sid \in DOMAIN SESSIONS})

\* the NPC record spawn_npc builds; u is the uuid4 behind a generated
\* name, v the one behind the id
NpcRecord(session, name, k, armor_class, u, v) ==
    LET nm == IF name # None THEN GivenName(name) ELSE GeneratedName(k, u)
    IN  [id |-> Id("npc", _slugify_name(nm), v),
         name |-> nm,
         kind |-> k,
         armor_class |-> armor_class,
         position |-> session.position,
         disposition |-> "hostile"]

\* session["npcs"][npc_id] = npc
RegisterNpc(session, npc) ==
    [session EXCEPT !.npcs = (npc.id :> npc) @@ @]

\* variant of the tile update of spawn_npc that leaves the entity list alone
ReflectNpcUnlisted(session, npc) ==
    _ensure_tile(session, npc.position.x, npc.position.y, npc.position.z)

\* variant of the tile update of spawn_npc that appends without dropping
\* the entry that has the NPC's id
ReflectNpcAppending(session, npc) ==
    LET pos == npc.position
        s1 == _ensure_tile(session, pos.x, pos.y, pos.z)
        key == _coord_key(pos.x, pos.y, pos.z)
        ent == [id |-> npc.id, kind |-> npc.kind, disposition |-> "hostile",
                name |-> npc.name]
    IN  [s1 EXCEPT !.tiles[key].tile.entities = Append(@, ent)]

\* the tile update of spawn_npc: the entry with the NPC's id is dropped
\* from the entity list of the tile at the NPC's position, the new one
\* is appended
ReflectNpc(session, npc) ==
    LET pos == npc.position
        s1 == _ensure_tile(session, pos.x, pos.y, pos.z)
        key == _coord_key(pos.x, pos.y, pos.z)
        ent == [id |-> npc.id, kind |-> npc.kind, disposition |-> "hostile",
                name |-> npc.name]
        entities == Append(SelectSeq(s1.tiles[key].tile.entities,
                                     LAMBDA e : e.id # npc.id), ent)
    IN  [s1 EXCEPT !.tiles[key].tile.entities = entities]

\* the registry and tile updates of spawn_npc
SpawnInto(session, npc) == ReflectNpc(RegisterNpc(session, npc), npc)

SpawnNpc(name, kind, session_id) ==
    \/ NotFound("spawn_npc", session_id, None)
    \/ /\ KnownSid(ResolveSid(session_id))
       /\ EventsLeft
       /\ LET sid == ResolveSid(session_id)
              session == SESSIONS[sid]
          IN  /\ NpcCount < MaxNpcs
              /\ \E now \in TimeInputs :
                    LET drawn == IF name # None THEN 1 ELSE 2
                        dr == SpawnDraws(sid, session.position, kind, now)
                        npc == NpcRecord(session, name, dr.kind,
                                         dr.armor_class,
                                         uuids + 1, uuids + drawn)
                        spawned == SpawnInto(session, npc)
                        logged == AppendEventTo(spawned, NEXT_EVENT_ID,
                                      "spawn_npc", [npc |-> npc])
                    IN  /\ pre' = Before(session)
                        /\ uuids' = uuids + drawn
                        /\ SESSION_LOCKS' = SetDefault(SESSION_LOCKS, sid, 0)
                        /\ SESSIONS' = [SESSIONS EXCEPT ![sid] = logged]
                        /\ NEXT_EVENT_ID' = NEXT_EVENT_ID + 1
                        /\ issued' = Append(issued, NEXT_EVENT_ID)
                        /\ ret' = Returned("spawn_npc", sid, None,
                                      [npc |-> npc,
                                       message |-> <<npc.name, npc.armor_class>>,
                                       event_id |-> NEXT_EVENT_ID])
       /\ UNCHANGED ACTIVE_SESSION_ID
       /\ UNCHANGED seqRead

\* spawn_npc when the six hex digits uuid4() contributes to the id are those
\* of an NPC the session already holds under the same name: the id repeats
SpawnNpcRepeat(name, kind, session_id) ==
    /\ KnownSid(ResolveSid(session_id))
    /\ EventsLeft
    /\ name # None
    /\ LET sid == ResolveSid(session_id)
           session == SESSIONS[sid]
       IN  \E now \in TimeInputs, old \in DOMAIN session.npcs :
              LET dr == SpawnDraws(sid, session.position, kind, now)
                  npc == NpcRecord(session, name, dr.kind, dr.armor_class,
                                   uuids + 1, old.n)
                  spawned == SpawnInto(session, npc)
                  logged == AppendEventTo(spawned, NEXT_EVENT_ID,
                                "spawn_npc", [npc |-> npc])
              IN  /\ npc.id = old
                  /\ pre' = Before(session)
                  /\ uuids' = uuids + 1
                  /\ SESSION_LOCKS' = SetDefault(SESSION_LOCKS, sid, 0)
                  /\ SESSIONS' = [SESSIONS EXCEPT ![sid] = logged]
                  /\ NEXT_EVENT_ID' = NEXT_EVENT_ID + 1
                  /\ issued' = Append(issued, NEXT_EVENT_ID)
                  /\ ret' = Returned("spawn_npc", sid, None,
                                [npc |-> npc,
                                 message |-> <<npc.name, npc.armor_class>>,
                                 event_id |-> NEXT_EVENT_ID])
    /\ UNCHANGED ACTIVE_SESSION_ID
    /\ UNCHANGED seqRead

UnknownNpc == Id("npc", [word |-> "nobody", tag |-> 0], 0)

NpcIdInputs ==
    {UnknownNpc} \cup UNION {DOMAIN SESSIONS[sid].npcs : sid \in DOMAIN SESSIONS}

GetNpc(npc_id, session_id) ==
    \/ NotFound("get_npc", session_id, npc_id)
    \/ /\ KnownSid(ResolveSid(session_id))
       /\ LET sid == ResolveSid(session_id)
              session == SESSIONS[sid]
          IN  /\ pre' = Before(session)
              /\ SESSION_LOCKS' = SetDefault(SESSION_LOCKS, sid, 0)
              /\ ret' = IF npc_id \in DOMAIN session.npcs
                        THEN Returned("get_npc", sid, npc_id,
                                      [npc |-> session.npcs[npc_id]])
                        ELSE Raised("get_npc", sid, npc_id, "ValueError",
                                    "Unknown npc_id")
       /\ UNCHANGED <<SESSIONS, ACTIVE_SESSION_ID, NEXT_EVENT_ID, uuids,
                      issued>>
       /\ UNCHANGED seqRead

\* the brief status get_active_session, set_active_session and
\* list_sessions report for a session
Brief(sid, s) ==
    [session_id |-> sid, turn |-> s.turn, position |-> s.position,
     heading |-> s.heading]

GetActiveSession ==
    /\ ret' = IF KnownSid(ACTIVE_SESSION_ID)
              THEN Returned("get_active_session", ACTIVE_SESSION_ID, None,
                            Brief(ACTIVE_SESSION_ID,
                                  SESSIONS[ACTIVE_SESSION_ID]))
              ELSE Returned("get_active_session", NoSid, None,
                            [session_id |-> None,
                             status |-> "no_active_session"])
    /\ pre' = NoBefore
    /\ UNCHANGED <<SESSIONS, ACTIVE_SESSION_ID, SESSION_LOCKS, NEXT_EVENT_ID,
                   uuids, issued>>
    /\ UNCHANGED seqRead

SetActiveSession(session_id) ==
    /\ IF session_id \in DOMAIN SESSIONS
       THEN /\ ACTIVE_SESSION_ID' = session_id
            /\ ret' = Returned("set_active_session", session_id, None,
                               Brief(session_id, SESSIONS[session_id]))
       ELSE /\ ret' = Raised("set_active_session", session_id, None,
                             "ValueError", "Unknown session_id")
            /\ UNCHANGED ACTIVE_SESSION_ID
    /\ pre' = NoBefore
    /\ UNCHANGED <<SESSIONS, SESSION_LOCKS, NEXT_EVENT_ID, uuids, issued>>
    /\ UNCHANGED seqRead

ListSessions ==
    /\ ret' = Returned("list_sessions", NoSid, None,
                  [sid \in DOMAIN SESSIONS |->
                      [session_id |-> sid,
                       turn |-> SESSIONS[sid].turn,
                       position |-> SESSIONS[sid].position,
                       heading |-> SESSIONS[sid].heading,
                       active |-> sid = ACTIVE_SESSION_ID]])
    /\ pre' = NoBefore
    /\ UNCHANGED <<SESSIONS, ACTIVE_SESSION_ID, SESSION_LOCKS, NEXT_EVENT_ID,
                   uuids, issued>>
    /\ UNCHANGED seqRead

ThemeInputs == {None}
MaxWordsInputs == {0, 80}

Next ==
    \/ \E theme \in ThemeInputs, max_words \in MaxWordsInputs :
          StartSession(theme, None, max_words)
    \/ \E direction \in MoveInputs, session_id \in SidInputs :
          Move(direction, session_id)
    \/ \E session_id \in SidInputs : Look(session_id)
    \/ \E text \in TextInputs, event_id \in EventIdInputs,
          session_id \in SidInputs :
          LogNarrative(text, event_id, session_id)
    \/ \E session_id \in SidInputs : Journal(session_id)
    \/ \E name \in NpcNames, kind \in NpcKindInputs, session_id \in SidInputs :
          SpawnNpc(name, kind, session_id)
    \/ \E npc_id \in NpcIdInputs, session_id \in SidInputs :
          GetNpc(npc_id, session_id)
    \/ GetActiveSession
    \/ \E session_id \in SidInputs \ {NoSid} : SetActiveSession(session_id)
    \/ ListSessions

Spec == Init /\ [][Next]_vars

-----------------------------------------------------------------------------
(* The same handlers on a session that has already been played: the       *)
(* starting states are built by the statements of start_session, move and *)
(* log_narrative themselves, so that the journal cap and the periodic     *)
(* rollup are within a few calls.  issued lists the ids issued since the  *)
(* starting state.                                                        *)

\* the texts of the narratives logged before the starting state
PlayedText(i) ==
    IF i % 2 = 1 THEN Text(<<TextLine("A door creaks.", 14, FALSE)>>)
                 ELSE Text(<<TextLine("Dust falls.", 11, FALSE)>>)

\* the session after a successful move(direction) that is issued eid
PlayMove(session, direction, eid) ==
    LET nd == NormalizeDirection(direction, session.heading)
        moved == MoveStep(session, nd)
    IN  MoveFinish(AppendEventTo(moved, eid, "move",
                       MoveEventPayload(session.position, moved, nd)))

\* the session after a successful log_narrative(text, 1) that is issued eid
PlayNarrative(session, text, eid) ==
    LogJournal(AppendEventTo(session, eid, "narrative",
                             [event_id |-> 1, text |-> text]), text)

\* the k-th call before the starting state: the moves north, south, north,
\* ... come first, the narratives after them; the k-th call is issued the
\* event id k + 1
PlayStep(session, k, turns) ==
    IF k <= turns
    THEN PlayMove(session, IF k % 2 = 1 THEN "north" ELSE "south", k + 1)
    ELSE PlayNarrative(session, PlayedText(k - turns), k + 1)

\* the element of a one-element set
Only(S) == CHOOSE r \in S : TRUE

\* the calls lo..hi applied in order (each intermediate session is bound
\* as a value, so that it is computed once)
RECURSIVE PlayRange(_, _, _, _)
PlayRange(session, lo, hi, turns) ==
    IF lo > hi THEN session
    ELSE IF lo = hi
    THEN Only({PlayStep(s, lo, turns) : s \in {session}})
    ELSE Only({PlayRange(half, (lo + hi) \div 2 + 1, hi, turns) :
                 half \in {PlayRange(session, lo, (lo + hi) \div 2, turns)}})

\* start_session, then the moves and the narratives
PlayedSession(session_id, turns, notes) ==
    PlayRange(AfterPayload(AppendEventTo(
                  NewSessionState(session_id, None, None, 80),
                  1, "session_start", [position |-> Pos(0, 0, 0)])),
              1, turns + notes, turns)

\* how much the session of a starting state has been played
PlayedInputs == {<<0, 0>>, <<PlayedTurns, PlayedNotes>>}

InitPlayed ==
    /\ \E played \in PlayedInputs :
          /\ SESSIONS = (1 :> PlayedSession(1, played[1], played[2]))
          /\ NEXT_EVENT_ID = 2 + played[1] + played[2]
    /\ ACTIVE_SESSION_ID = 1
    /\ SESSION_LOCKS = (1 :> 0)
    /\ uuids = 1
    /\ ret = Returned("init", NoSid, None, None)
    /\ pre = NoBefore
    /\ issued = <<>>
    /\ known = {1}
    /\ calls = 0
    /\ pc = [t \in Threads |-> "idle"]
    /\ loc = [t \in Threads |-> IdleLoc]
    /\ clock = 0
    /\ globalRng = [state |-> 0, draws |-> 0]
    /\ genLog = <<>>
    /\ dice = <<>>
    /\ COMBAT = <<>>
    /\ last_d20_roll = NoRoll

PlayedMoveInputs == {"north", "back", "jump"}

\* the session_id arguments: none (the active session) and an id that was
\* never issued
PlayedSidInputs == {NoSid, UnknownSid}

PlayedNext ==
    \/ \E direction \in PlayedMoveInputs, session_id \in PlayedSidInputs :
          Move(direction, session_id)
    \/ \E session_id \in PlayedSidInputs : Look(session_id)
    \/ \E text \in TextInputs, event_id \in EventIdInputs,
          session_id \in PlayedSidInputs :
          LogNarrative(text, event_id, session_id)
    \/ \E session_id \in PlayedSidInputs : Journal(session_id)
    \/ \E name \in NpcNames, kind \in NpcKindInputs, session_id \in PlayedSidInputs :
          SpawnNpc(name, kind, session_id)
    \/ \E name \in NpcNames, kind \in NpcKindInputs, session_id \in PlayedSidInputs :
          SpawnNpcRepeat(name, kind, session_id)
    \/ \E npc_id \in NpcIdInputs, session_id \in PlayedSidInputs :
          GetNpc(npc_id, session_id)

SpecPlayed == InitPlayed /\ [][PlayedNext]_vars

-----------------------------------------------------------------------------
(* The same handlers on a session whose event log is about to reach its   *)
(* ceiling                                                                *)

InitLogged ==
    /\ SESSIONS = (1 :> PlayedSession(1, 0, LoggedNotes))
    /\ NEXT_EVENT_ID = 2 + LoggedNotes
    /\ ACTIVE_SESSION_ID = 1
    /\ SESSION_LOCKS = (1 :> 0)
    /\ uuids = 1
    /\ ret = Returned("init", NoSid, None, None)
    /\ pre = NoBefore
    /\ issued = <<>>
    /\ known = {1}
    /\ calls = 0
    /\ pc = [t \in Threads |-> "idle"]
    /\ loc = [t \in Threads |-> IdleLoc]
    /\ clock = 0
    /\ globalRng = [state |-> 0, draws |-> 0]
    /\ genLog = <<>>
    /\ dice = <<>>
    /\ COMBAT = <<>>
    /\ last_d20_roll = NoRoll

LoggedNext ==
    \/ \E text \in TextInputs, event_id \in EventIdInputs,
          session_id \in PlayedSidInputs :
          LogNarrative(text, event_id, session_id)
    \/ \E direction \in {"north", "back"} : Move(direction, NoSid)

SpecLogged == InitLogged /\ [][LoggedNext]_vars

-----------------------------------------------------------------------------
(* The tile generator called directly, between session operations, clock  *)
(* ticks and draws from the module-level random generator                 *)

genOnly == <<SESSIONS, ACTIVE_SESSION_ID, SESSION_LOCKS, NEXT_EVENT_ID, uuids,
             ret, pre, issued, known, calls, pc, loc, dice, COMBAT, last_d20_roll>>

\* time passes
Tick ==
    /\ clock < MaxClock
    /\ clock' = clock + 1
    /\ UNCHANGED <<globalRng, genLog, dice, COMBAT, last_d20_roll>>
    /\ UNCHANGED genOnly

\* random.randint(1, sides) on the module-level generator (roll_dice)
GlobalDraw ==
    /\ globalRng.draws < MaxRolls
    /\ globalRng' = [state |-> RngNext(globalRng.state),
                     draws |-> globalRng.draws + 1]
    /\ UNCHANGED <<clock, genLog, dice, COMBAT, last_d20_roll>>
    /\ UNCHANGED genOnly

\* the coordinates fed to _generate_tile directly
GenCoords == {<<x, y, 0>> : x \in 0..MaxCoord, y \in 0..MaxCoord}

\* _generate_tile(session_id, x, y, z), its result recorded with the clock
\* at the call
GenCall(session_id, x, y, z) ==
    /\ Len(genLog) < MaxGenCalls
    /\ genLog' = Append(genLog,
                    [input |-> <<session_id, x, y, z>>,
                     at |-> clock,
                     result |-> _generate_tile(session_id, x, y, z)])
    /\ UNCHANGED <<clock, globalRng>>
    /\ UNCHANGED genOnly

GenNext ==
    \/ Tick
    \/ GlobalDraw
    \/ \E session_id \in 1..MaxGenSid, c \in GenCoords :
          GenCall(session_id, c[1], c[2], c[3])
    \/ StartSession(None, None, 80)
    \/ \E direction \in {"north", "east"} : Move(direction, NoSid)

SpecGen == Init /\ [][GenNext]_vars

-----------------------------------------------------------------------------
(* The same handlers with concurrent callers.  A thread executes one      *)
(* statement that reads or writes shared state per step, so that a thread *)
(* switch can fall between any two of them.  _append_event takes four     *)
(* steps: the read of the counter, the load and the store of "+= 1", and  *)
(* the list append.                                                        *)

Step(t, label, newloc) ==
    /\ pc' = [pc EXCEPT ![t] = label]
    /\ loc' = [loc EXCEPT ![t] = newloc]
    /\ UNCHANGED <<ret, calls>>

Finish(t, result) ==
    /\ pc' = [pc EXCEPT ![t] = "idle"]
    /\ loc' = [loc EXCEPT ![t] = IdleLoc]
    /\ ret' = result
    /\ UNCHANGED calls

\* an idle thread enters a handler
Invoke(t, label, newloc) ==
    /\ pc[t] = "idle"
    /\ calls < MaxCalls
    /\ calls' = calls + 1
    /\ pc' = [pc EXCEPT ![t] = label]
    /\ loc' = [loc EXCEPT ![t] = newloc]
    /\ UNCHANGED ret

Release(sid) == SESSION_LOCKS' = [SESSION_LOCKS EXCEPT ![sid] = 0]

ConcSidInputs == {NoSid} \cup known

ConcMoveInputs == {"north", "jump"}

ConcTextInputs ==
    {Text(<<>>), Text(<<TextLine("A door creaks.", 14, FALSE)>>)}

\* ---- start_session -------------------------------------------------------

\* _new_session up to the registration: the state is still private
CallStartSession(t) ==
    /\ Cardinality(DOMAIN SESSIONS)
         + Cardinality({u \in Threads : pc[u] = "ns_register"}) < MaxSessions
    /\ uuids' = uuids + 1
    /\ Invoke(t, "ns_register",
            [op |-> "start_session", sid |-> uuids + 1,
             state |-> NewSessionState(uuids + 1, None, None, 80)])
    /\ UNCHANGED <<SESSIONS, ACTIVE_SESSION_ID, SESSION_LOCKS, NEXT_EVENT_ID,
                   issued, known, pre, clock, globalRng, genLog, dice, COMBAT, last_d20_roll>>

\* _SESSIONS[session_id] = state
NsRegister(t) ==
    /\ pc[t] = "ns_register"
    /\ SESSIONS' = (loc[t].sid :> loc[t].state) @@ SESSIONS
    /\ Step(t, "ns_lock", loc[t])
    /\ UNCHANGED <<ACTIVE_SESSION_ID, SESSION_LOCKS, NEXT_EVENT_ID, uuids,
                   issued, known, pre, clock, globalRng, genLog, dice, COMBAT, last_d20_roll>>

\* _SESSION_LOCKS.setdefault(session_id, threading.Lock())
NsLock(t) ==
    /\ pc[t] = "ns_lock"
    /\ SESSION_LOCKS' = SetDefault(SESSION_LOCKS, loc[t].sid, 0)
    /\ Step(t, "ae_read",
            [op |-> "start_session", sid |-> loc[t].sid,
             etype |-> "session_start",
             payload |-> [position |-> Pos(0, 0, 0)],
             after |-> "ss_active"])
    /\ UNCHANGED <<SESSIONS, ACTIVE_SESSION_ID, NEXT_EVENT_ID, uuids,
                   issued, known, pre, clock, globalRng, genLog, dice, COMBAT, last_d20_roll>>

\* _ACTIVE_SESSION_ID = state["session_id"]
SsActive(t) ==
    /\ pc[t] = "ss_active"
    /\ ACTIVE_SESSION_ID' = loc[t].sid
    /\ Step(t, "ss_return", loc[t])
    /\ UNCHANGED <<SESSIONS, SESSION_LOCKS, NEXT_EVENT_ID, uuids,
                   issued, known, pre, clock, globalRng, genLog, dice, COMBAT, last_d20_roll>>

\* return _public_tile_payload(state)
SsReturn(t) ==
    /\ pc[t] = "ss_return"
    /\ LET sid == loc[t].sid
       IN  /\ SESSIONS' = [SESSIONS EXCEPT ![sid] = AfterPayload(@)]
           /\ Finish(t, Returned("start_session", sid, None,
                                 _public_tile_payload(SESSIONS[sid])))
           /\ known' = known \cup {sid}
    /\ UNCHANGED <<ACTIVE_SESSION_ID, SESSION_LOCKS, NEXT_EVENT_ID, uuids,
                   issued, pre, clock, globalRng, genLog, dice, COMBAT, last_d20_roll>>

\* ---- _append_event -------------------------------------------------------

\* eid = _NEXT_EVENT_ID
AeRead(t) ==
    /\ pc[t] = "ae_read"
    /\ issued' = Append(issued, NEXT_EVENT_ID)
    /\ Step(t, "ae_load",
            loc[t] @@ [eid |-> NEXT_EVENT_ID])
    /\ UNCHANGED <<SESSIONS, ACTIVE_SESSION_ID, SESSION_LOCKS, NEXT_EVENT_ID,
                   uuids, known, pre, clock, globalRng, genLog, dice, COMBAT, last_d20_roll>>

\* _NEXT_EVENT_ID += 1, the load
AeLoad(t) ==
    /\ pc[t] = "ae_load"
    /\ Step(t, "ae_store", loc[t] @@ [tmp |-> NEXT_EVENT_ID])
    /\ UNCHANGED <<SESSIONS, ACTIVE_SESSION_ID, SESSION_LOCKS, NEXT_EVENT_ID,
                   uuids, issued, known, pre, clock, globalRng, genLog, dice, COMBAT, last_d20_roll>>

\* _NEXT_EVENT_ID += 1, the store
AeStore(t) ==
    /\ pc[t] = "ae_store"
    /\ NEXT_EVENT_ID' = loc[t].tmp + 1
    /\ Step(t, "ae_append", loc[t])
    /\ UNCHANGED <<SESSIONS, ACTIVE_SESSION_ID, SESSION_LOCKS, uuids,
                   issued, known, pre, clock, globalRng, genLog, dice, COMBAT, last_d20_roll>>

\* session["events"].append(...) and the cap
AeAppend(t) ==
    /\ pc[t] = "ae_append"
    /\ SESSIONS' = [SESSIONS EXCEPT ![loc[t].sid] =
                       AppendEventTo(@, loc[t].eid, loc[t].etype,
                                     loc[t].payload)]
    /\ Step(t, loc[t].after, loc[t])
    /\ UNCHANGED <<ACTIVE_SESSION_ID, SESSION_LOCKS, NEXT_EVENT_ID, uuids,
                   issued, known, pre, clock, globalRng, genLog, dice, COMBAT, last_d20_roll>>

\* ---- the session-addressed handlers -------------------------------------

CallMove(t, direction, session_id) ==
    /\ Invoke(t, "resolve",
            [op |-> "move", session_id |-> session_id,
             direction |-> direction])
    /\ UNCHANGED <<SESSIONS, ACTIVE_SESSION_ID, SESSION_LOCKS, NEXT_EVENT_ID,
                   uuids, issued, known, pre, clock, globalRng, genLog, dice, COMBAT, last_d20_roll>>

CallLook(t, session_id) ==
    /\ Invoke(t, "resolve",
            [op |-> "look", session_id |-> session_id])
    /\ UNCHANGED <<SESSIONS, ACTIVE_SESSION_ID, SESSION_LOCKS, NEXT_EVENT_ID,
                   uuids, issued, known, pre, clock, globalRng, genLog, dice, COMBAT, last_d20_roll>>

CallLogNarrative(t, text, event_id, session_id) ==
    /\ Invoke(t, "resolve",
            [op |-> "log_narrative", session_id |-> session_id,
             text |-> text, event_id |-> event_id])
    /\ UNCHANGED <<SESSIONS, ACTIVE_SESSION_ID, SESSION_LOCKS, NEXT_EVENT_ID,
                   uuids, issued, known, pre, clock, globalRng, genLog, dice, COMBAT, last_d20_roll>>

CallJournal(t, session_id) ==
    /\ Invoke(t, "resolve",
            [op |-> "journal", session_id |-> session_id])
    /\ UNCHANGED <<SESSIONS, ACTIVE_SESSION_ID, SESSION_LOCKS, NEXT_EVENT_ID,
                   uuids, issued, known, pre, clock, globalRng, genLog, dice, COMBAT, last_d20_roll>>

CallSpawnNpc(t, name, kind, session_id) ==
    /\ NpcCount + Cardinality({u \in Threads : pc[u] # "idle"
                                  /\ loc[u].op = "spawn_npc"}) < MaxNpcs
    /\ Invoke(t, "resolve",
            [op |-> "spawn_npc", session_id |-> session_id,
             name |-> name, kind |-> kind])
    /\ UNCHANGED <<SESSIONS, ACTIVE_SESSION_ID, SESSION_LOCKS, NEXT_EVENT_ID,
                   uuids, issued, known, pre, clock, globalRng, genLog, dice, COMBAT, last_d20_roll>>

CallGetNpc(t, npc_id, session_id) ==
    /\ Invoke(t, "resolve",
            [op |-> "get_npc", session_id |-> session_id,
             npc_id |-> npc_id])
    /\ UNCHANGED <<SESSIONS, ACTIVE_SESSION_ID, SESSION_LOCKS, NEXT_EVENT_ID,
                   uuids, issued, known, pre, clock, globalRng, genLog, dice, COMBAT, last_d20_roll>>

\* sid = session_id or _ACTIVE_SESSION_ID, and the checks made before the
\* lock is looked up
Resolve(t) ==
    /\ pc[t] = "resolve"
    /\ LET sid == ResolveSid(loc[t].session_id)
           op == loc[t].op
           arg == IF op = "move" THEN loc[t].direction ELSE None
       IN  IF ~KnownSid(sid)
           THEN Finish(t, Raised(op, sid, arg, "ValueError", NoSession))
           ELSE IF op = "log_narrative" /\ loc[t].event_id <= 0
           THEN Finish(t, Raised(op, sid, None, "ValueError",
                                 "event_id must be a positive integer"))
           ELSE Step(t, "acquire", loc[t] @@ [sid |-> sid])
    /\ UNCHANGED <<SESSIONS, ACTIVE_SESSION_ID, SESSION_LOCKS, NEXT_EVENT_ID,
                   uuids, issued, known, pre, clock, globalRng, genLog, dice, COMBAT, last_d20_roll>>

FirstLabel(op) ==
    CASE op = "move" -> "m_normalize"
      [] op = "look" -> "l_return"
      [] op = "log_narrative" -> "ln_event"
      [] op = "journal" -> "j_return"
      [] op = "spawn_npc" -> "sp_build"
      [] op = "get_npc" -> "gn_return"

\* variant of the lock acquisition that does not wait for the holder
AcquireWithoutWaiting(t) ==
    /\ pc[t] = "acquire"
    /\ SESSION_LOCKS' = [SetDefault(SESSION_LOCKS, loc[t].sid, 0)
                            EXCEPT ![loc[t].sid] = t]
    /\ Step(t, FirstLabel(loc[t].op), loc[t])
    /\ UNCHANGED <<SESSIONS, ACTIVE_SESSION_ID, NEXT_EVENT_ID, uuids,
                   issued, known, pre, clock, globalRng, genLog, dice, COMBAT, last_d20_roll>>

\* variant of the lock acquisition with one lock for the whole store
AcquireStoreLock(t) ==
    /\ pc[t] = "acquire"
    /\ LET sid == loc[t].sid
           locks == SetDefault(SESSION_LOCKS, sid, 0)
       IN  /\ \A other \in DOMAIN locks : locks[other] = 0
           /\ SESSION_LOCKS' = [locks EXCEPT ![sid] = t]
    /\ Step(t, FirstLabel(loc[t].op), loc[t])
    /\ UNCHANGED <<SESSIONS, ACTIVE_SESSION_ID, NEXT_EVENT_ID, uuids,
                   issued, known, pre, clock, globalRng, genLog, dice, COMBAT, last_d20_roll>>

\* lock = _with_session_lock(sid); with lock: - waits while another holds it
Acquire(t) ==
    /\ pc[t] = "acquire"
    /\ LET sid == loc[t].sid
           locks == SetDefault(SESSION_LOCKS, sid, 0)
       IN  /\ locks[sid] = 0
           /\ SESSION_LOCKS' = [locks EXCEPT ![sid] = t]
    /\ Step(t, FirstLabel(loc[t].op), loc[t])
    /\ UNCHANGED <<SESSIONS, ACTIVE_SESSION_ID, NEXT_EVENT_ID, uuids,
                   issued, known, pre, clock, globalRng, genLog, dice, COMBAT, last_d20_roll>>

\* variant of the first statements of move in which the unknown direction
\* is raised with the lock still held
MNormalizeKeepingLock(t) ==
    /\ pc[t] = "m_normalize"
    /\ LET sid == loc[t].sid
           session == SESSIONS[sid]
           nd == NormalizeDirection(loc[t].direction, session.heading)
       IN  IF ~nd.ok
           THEN Finish(t, Raised("move", sid, loc[t].direction,
                                 "ValueError", "Unknown direction"))
           ELSE Step(t, "m_position",
                     loc[t] @@ [nd |-> nd, from_pos |-> session.position])
    /\ UNCHANGED <<SESSIONS, ACTIVE_SESSION_ID, SESSION_LOCKS, NEXT_EVENT_ID,
                   uuids, issued, known, pre, clock, globalRng, genLog, dice, COMBAT, last_d20_roll>>

\* move: heading_before, _normalize_direction, from_pos
MNormalize(t) ==
    /\ pc[t] = "m_normalize"
    /\ LET sid == loc[t].sid
           session == SESSIONS[sid]
           nd == NormalizeDirection(loc[t].direction, session.heading)
       IN  IF ~nd.ok
           THEN /\ Release(sid)
                /\ Finish(t, Raised("move", sid, loc[t].direction,
                                    "ValueError", "Unknown direction"))
           ELSE /\ Step(t, "m_position",
                        loc[t] @@ [nd |-> nd, from_pos |-> session.position])
                /\ UNCHANGED SESSION_LOCKS
    /\ UNCHANGED <<SESSIONS, ACTIVE_SESSION_ID, NEXT_EVENT_ID, uuids,
                   issued, known, pre, clock, globalRng, genLog, dice, COMBAT, last_d20_roll>>

\* session["position"] = {...}
MPosition(t) ==
    /\ pc[t] = "m_position"
    /\ LET d == _DELTAS[loc[t].nd.abs_dir]
           from_pos == loc[t].from_pos
       IN  SESSIONS' = [SESSIONS EXCEPT ![loc[t].sid].position =
                           Pos(from_pos.x + d[1], from_pos.y + d[2],
                               from_pos.z + d[3])]
    /\ Step(t, "m_heading", loc[t])
    /\ UNCHANGED <<ACTIVE_SESSION_ID, SESSION_LOCKS, NEXT_EVENT_ID, uuids,
                   issued, known, pre, clock, globalRng, genLog, dice, COMBAT, last_d20_roll>>

\* session["heading"] = new_heading
MHeading(t) ==
    /\ pc[t] = "m_heading"
    /\ SESSIONS' = [SESSIONS EXCEPT ![loc[t].sid].heading = loc[t].nd.heading]
    /\ Step(t, "m_turn", loc[t])
    /\ UNCHANGED <<ACTIVE_SESSION_ID, SESSION_LOCKS, NEXT_EVENT_ID, uuids,
                   issued, known, pre, clock, globalRng, genLog, dice, COMBAT, last_d20_roll>>

\* session["turn"] += 1
MTurn(t) ==
    /\ pc[t] = "m_turn"
    /\ SESSIONS' = [SESSIONS EXCEPT ![loc[t].sid].turn = @ + 1]
    /\ Step(t, "m_tile", loc[t])
    /\ UNCHANGED <<ACTIVE_SESSION_ID, SESSION_LOCKS, NEXT_EVENT_ID, uuids,
                   issued, known, pre, clock, globalRng, genLog, dice, COMBAT, last_d20_roll>>

\* _ensure_tile(session, pos...), and the arguments of _append_event
MTile(t) ==
    /\ pc[t] = "m_tile"
    /\ LET sid == loc[t].sid
           session == SESSIONS[sid]
           pos == session.position
       IN  /\ SESSIONS' = [SESSIONS EXCEPT ![sid] =
                              _ensure_tile(session, pos.x, pos.y, pos.z)]
           /\ Step(t, "ae_read",
                   loc[t] @@ [etype |-> "move",
                              payload |-> MoveEventPayload(loc[t].from_pos,
                                                           session, loc[t].nd),
                              after |-> "m_return"])
    /\ UNCHANGED <<ACTIVE_SESSION_ID, SESSION_LOCKS, NEXT_EVENT_ID, uuids,
                   issued, known, pre, clock, globalRng, genLog, dice, COMBAT, last_d20_roll>>

\* the rollup, the payload, the release of the lock
MReturn(t) ==
    /\ pc[t] = "m_return"
    /\ LET sid == loc[t].sid
           done == MoveFinish(SESSIONS[sid])
       IN  /\ SESSIONS' = [SESSIONS EXCEPT ![sid] = done]
           /\ Release(sid)
           /\ Finish(t, Returned("move", sid, loc[t].direction,
                                 [snapshot |-> _public_tile_payload(done),
                                  event_id |-> loc[t].eid]))
    /\ UNCHANGED <<ACTIVE_SESSION_ID, NEXT_EVENT_ID, uuids,
                   issued, known, pre, clock, globalRng, genLog, dice, COMBAT, last_d20_roll>>

LReturn(t) ==
    /\ pc[t] = "l_return"
    /\ LET sid == loc[t].sid
       IN  /\ SESSIONS' = [SESSIONS EXCEPT ![sid] = AfterPayload(@)]
           /\ Release(sid)
           /\ Finish(t, Returned("look", sid, None,
                                 _public_tile_payload(SESSIONS[sid])))
    /\ UNCHANGED <<ACTIVE_SESSION_ID, NEXT_EVENT_ID, uuids,
                   issued, known, pre, clock, globalRng, genLog, dice, COMBAT, last_d20_roll>>

\* log_narrative: the arguments of _append_event
LnEvent(t) ==
    /\ pc[t] = "ln_event"
    /\ Step(t, "ae_read",
            loc[t] @@ [etype |-> "narrative",
                       payload |-> [event_id |-> loc[t].event_id,
                                    text |-> loc[t].text],
                       after |-> "ln_journal"])
    /\ UNCHANGED <<SESSIONS, ACTIVE_SESSION_ID, SESSION_LOCKS, NEXT_EVENT_ID,
                   uuids, issued, known, pre, clock, globalRng, genLog, dice, COMBAT, last_d20_roll>>

\* the snippet and the journal line
LnJournal(t) ==
    /\ pc[t] = "ln_journal"
    /\ LET sid == loc[t].sid
       IN  /\ Release(sid)
           /\ IF StrippedLines(loc[t].text) = <<>>
              THEN /\ Finish(t, Raised("log_narrative", sid, None,
                                       "IndexError",
                                       "list index out of range"))
                   /\ UNCHANGED SESSIONS
              ELSE /\ SESSIONS' = [SESSIONS EXCEPT ![sid] =
                                      LogJournal(@, loc[t].text)]
                   /\ Finish(t, Returned("log_narrative", sid, None,
                                    [ok |-> TRUE,
                                     logged_event_id |-> loc[t].eid]))
    /\ UNCHANGED <<ACTIVE_SESSION_ID, NEXT_EVENT_ID, uuids,
                   issued, known, pre, clock, globalRng, genLog, dice, COMBAT, last_d20_roll>>

JReturn(t) ==
    /\ pc[t] = "j_return"
    /\ LET sid == loc[t].sid
           session == SESSIONS[sid]
       IN  /\ Release(sid)
           /\ Finish(t, Returned("journal", sid, None,
                            [turn |-> session.turn,
                             summary |-> LastN(session.journal,
                                               _JOURNAL_MAX_ENTRIES)]))
    /\ UNCHANGED <<SESSIONS, ACTIVE_SESSION_ID, NEXT_EVENT_ID, uuids,
                   issued, known, pre, clock, globalRng, genLog, dice, COMBAT, last_d20_roll>>

\* spawn_npc: the tile, the draws, the NPC record
SpBuild(t) ==
    /\ pc[t] = "sp_build"
    /\ LET sid == loc[t].sid
           session == SESSIONS[sid]
           pos == session.position
           drawn == IF loc[t].name # None THEN 1 ELSE 2
       IN  \E now \in TimeInputs :
              LET dr == SpawnDraws(sid, pos, loc[t].kind, now)
                  npc == NpcRecord(session, loc[t].name, dr.kind,
                                   dr.armor_class, uuids + 1, uuids + drawn)
              IN  /\ SESSIONS' = [SESSIONS EXCEPT ![sid] =
                                     _ensure_tile(session, pos.x, pos.y, pos.z)]
                  /\ uuids' = uuids + drawn
                  /\ Step(t, "sp_register", loc[t] @@ [npc |-> npc])
    /\ UNCHANGED <<ACTIVE_SESSION_ID, SESSION_LOCKS, NEXT_EVENT_ID,
                   issued, known, pre, clock, globalRng, genLog, dice, COMBAT, last_d20_roll>>

SpRegister(t) ==
    /\ pc[t] = "sp_register"
    /\ SESSIONS' = [SESSIONS EXCEPT ![loc[t].sid] =
                       RegisterNpc(@, loc[t].npc)]
    /\ Step(t, "sp_entities", loc[t])
    /\ UNCHANGED <<ACTIVE_SESSION_ID, SESSION_LOCKS, NEXT_EVENT_ID, uuids,
                   issued, known, pre, clock, globalRng, genLog, dice, COMBAT, last_d20_roll>>

SpEntities(t) ==
    /\ pc[t] = "sp_entities"
    /\ SESSIONS' = [SESSIONS EXCEPT ![loc[t].sid] =
                       ReflectNpc(@, loc[t].npc)]
    /\ Step(t, "ae_read",
            loc[t] @@ [etype |-> "spawn_npc",
                       payload |-> [npc |-> loc[t].npc],
                       after |-> "sp_return"])
    /\ UNCHANGED <<ACTIVE_SESSION_ID, SESSION_LOCKS, NEXT_EVENT_ID, uuids,
                   issued, known, pre, clock, globalRng, genLog, dice, COMBAT, last_d20_roll>>

SpReturn(t) ==
    /\ pc[t] = "sp_return"
    /\ Release(loc[t].sid)
    /\ Finish(t, Returned("spawn_npc", loc[t].sid, None,
                     [npc |-> loc[t].npc,
                      message |-> <<loc[t].npc.name, loc[t].npc.armor_class>>,
                      event_id |-> loc[t].eid]))
    /\ UNCHANGED <<SESSIONS, ACTIVE_SESSION_ID, NEXT_EVENT_ID, uuids,
                   issued, known, pre, clock, globalRng, genLog, dice, COMBAT, last_d20_roll>>

GnReturn(t) ==
    /\ pc[t] = "gn_return"
    /\ LET sid == loc[t].sid
           session == SESSIONS[sid]
       IN  /\ Release(sid)
           /\ Finish(t, IF loc[t].npc_id \in DOMAIN session.npcs
                        THEN Returned("get_npc", sid, loc[t].npc_id,
                                      [npc |-> session.npcs[loc[t].npc_id]])
                        ELSE Raised("get_npc", sid, loc[t].npc_id,
                                    "ValueError",
                                    "Unknown npc_id"))
    /\ UNCHANGED <<SESSIONS, ACTIVE_SESSION_ID, NEXT_EVENT_ID, uuids,
                   issued, known, pre, clock, globalRng, genLog, dice, COMBAT, last_d20_roll>>

\* ---- get_active_session, set_active_session, list_sessions --------------

CallGetActiveSession(t) ==
    /\ Invoke(t, "ga_check", [op |-> "get_active_session"])
    /\ UNCHANGED <<SESSIONS, ACTIVE_SESSION_ID, SESSION_LOCKS, NEXT_EVENT_ID,
                   uuids, issued, known, pre, clock, globalRng, genLog, dice, COMBAT, last_d20_roll>>

\* sid = _ACTIVE_SESSION_ID; if not sid or sid not in _SESSIONS
GaCheck(t) ==
    /\ pc[t] = "ga_check"
    /\ IF KnownSid(ACTIVE_SESSION_ID)
       THEN Step(t, "rd_turn", loc[t] @@ [cur |-> ACTIVE_SESSION_ID])
       ELSE Finish(t, Returned("get_active_session", NoSid, None,
                               [session_id |-> None,
                                status |-> "no_active_session"]))
    /\ UNCHANGED <<SESSIONS, ACTIVE_SESSION_ID, SESSION_LOCKS, NEXT_EVENT_ID,
                   uuids, issued, known, pre, clock, globalRng, genLog, dice, COMBAT, last_d20_roll>>

CallSetActiveSession(t, session_id) ==
    /\ Invoke(t, "sa_check",
            [op |-> "set_active_session",
             session_id |-> session_id])
    /\ UNCHANGED <<SESSIONS, ACTIVE_SESSION_ID, SESSION_LOCKS, NEXT_EVENT_ID,
                   uuids, issued, known, pre, clock, globalRng, genLog, dice, COMBAT, last_d20_roll>>

\* if session_id not in _SESSIONS: raise
SaCheck(t) ==
    /\ pc[t] = "sa_check"
    /\ IF loc[t].session_id \in DOMAIN SESSIONS
       THEN Step(t, "sa_set", loc[t])
       ELSE Finish(t, Raised("set_active_session", loc[t].session_id, None,
                             "ValueError", "Unknown session_id"))
    /\ UNCHANGED <<SESSIONS, ACTIVE_SESSION_ID, SESSION_LOCKS, NEXT_EVENT_ID,
                   uuids, issued, known, pre, clock, globalRng, genLog, dice, COMBAT, last_d20_roll>>

\* _ACTIVE_SESSION_ID = session_id
SaSet(t) ==
    /\ pc[t] = "sa_set"
    /\ ACTIVE_SESSION_ID' = loc[t].session_id
    /\ Step(t, "rd_turn", loc[t] @@ [cur |-> loc[t].session_id])
    /\ UNCHANGED <<SESSIONS, SESSION_LOCKS, NEXT_EVENT_ID, uuids,
                   issued, known, pre, clock, globalRng, genLog, dice, COMBAT, last_d20_roll>>

RECURSIVE SortedSeq(_)
SortedSeq(S) ==
    IF S = {} THEN <<>>
    ELSE LET m == CHOOSE x \in S : \A y \in S : x <= y
         IN  <<m>> \o SortedSeq(S \ {m})

\* for sid, s in _SESSIONS.items(): the iterator, and the size of the
\* dict when the loop began
CallListSessions(t) ==
    /\ Invoke(t, "ls_next",
            [op |-> "list_sessions",
             todo |-> SortedSeq(DOMAIN SESSIONS),
             size |-> Cardinality(DOMAIN SESSIONS), data |-> <<>>])
    /\ UNCHANGED <<SESSIONS, ACTIVE_SESSION_ID, SESSION_LOCKS, NEXT_EVENT_ID,
                   uuids, issued, known, pre, clock, globalRng, genLog, dice, COMBAT, last_d20_roll>>

\* the next item of the iteration; a dict that changed size raises
LsNext(t) ==
    /\ pc[t] = "ls_next"
    /\ IF Cardinality(DOMAIN SESSIONS) # loc[t].size
       THEN /\ Finish(t, Raised("list_sessions", NoSid, None, "RuntimeError",
                                "dictionary changed size during iteration"))
            /\ UNCHANGED known
       ELSE IF loc[t].todo = <<>>
       THEN /\ Finish(t, Returned("list_sessions", NoSid, None, loc[t].data))
            /\ known' = known \cup {loc[t].data[i].session_id :
                                       i \in 1..Len(loc[t].data)}
       ELSE /\ Step(t, "rd_turn",
                    [loc[t] EXCEPT !.todo = Tail(@)]
                        @@ [cur |-> Head(loc[t].todo)])
            /\ UNCHANGED known
    /\ UNCHANGED <<SESSIONS, ACTIVE_SESSION_ID, SESSION_LOCKS, NEXT_EVENT_ID,
                   uuids, issued, pre, clock, globalRng, genLog, dice, COMBAT, last_d20_roll>>

\* s["turn"]
RdTurn(t) ==
    /\ pc[t] = "rd_turn"
    /\ Step(t, "rd_position",
            [x \in DOMAIN loc[t] \cup {"turn"} |->
                IF x = "turn" THEN SESSIONS[loc[t].cur].turn ELSE loc[t][x]])
    /\ UNCHANGED <<SESSIONS, ACTIVE_SESSION_ID, SESSION_LOCKS, NEXT_EVENT_ID,
                   uuids, issued, known, pre, clock, globalRng, genLog, dice, COMBAT, last_d20_roll>>

\* s["position"]
RdPosition(t) ==
    /\ pc[t] = "rd_position"
    /\ Step(t, "rd_heading",
            [x \in DOMAIN loc[t] \cup {"position"} |->
                IF x = "position" THEN SESSIONS[loc[t].cur].position
                ELSE loc[t][x]])
    /\ UNCHANGED <<SESSIONS, ACTIVE_SESSION_ID, SESSION_LOCKS, NEXT_EVENT_ID,
                   uuids, issued, known, pre, clock, globalRng, genLog, dice, COMBAT, last_d20_roll>>

\* s["heading"], and what the handler does with the three values
RdHeading(t) ==
    /\ pc[t] = "rd_heading"
    /\ LET cur == loc[t].cur
           brief == [session_id |-> cur, turn |-> loc[t].turn,
                     position |-> loc[t].position,
                     heading |-> SESSIONS[cur].heading]
       IN  IF loc[t].op = "list_sessions"
           THEN /\ Step(t, "ls_next",
                        [loc[t] EXCEPT !.data =
                            Append(@, [session_id |-> cur,
                                       turn |-> brief.turn,
                                       position |-> brief.position,
                                       heading |-> brief.heading,
                                       active |-> cur = ACTIVE_SESSION_ID])])
                /\ UNCHANGED known
           ELSE /\ Finish(t, Returned(loc[t].op, cur, None, brief))
                /\ known' = known \cup {cur}
    /\ UNCHANGED <<SESSIONS, ACTIVE_SESSION_ID, SESSION_LOCKS, NEXT_EVENT_ID,
                   uuids, issued, pre, clock, globalRng, genLog, dice, COMBAT, last_d20_roll>>

ConcNext ==
    \E t \in Threads :
        \/ CallStartSession(t)
        \/ NsRegister(t)
        \/ NsLock(t)
        \/ SsActive(t)
        \/ SsReturn(t)
        \/ AeRead(t)
        \/ AeLoad(t)
        \/ AeStore(t)
        \/ AeAppend(t)
        \/ \E direction \in ConcMoveInputs, session_id \in ConcSidInputs :
              CallMove(t, direction, session_id)
        \/ \E session_id \in ConcSidInputs : CallLook(t, session_id)
        \/ \E text \in ConcTextInputs, event_id \in EventIdInputs,
              session_id \in ConcSidInputs :
              CallLogNarrative(t, text, event_id, session_id)
        \/ \E session_id \in ConcSidInputs : CallJournal(t, session_id)
        \/ \E session_id \in ConcSidInputs : CallSpawnNpc(t, None, None, session_id)
        \/ \E npc_id \in NpcIdInputs, session_id \in ConcSidInputs :
              CallGetNpc(t, npc_id, session_id)
        \/ Resolve(t)
        \/ Acquire(t)
        \/ MNormalize(t)
        \/ MPosition(t)
        \/ MHeading(t)
        \/ MTurn(t)
        \/ MTile(t)
        \/ MReturn(t)
        \/ LReturn(t)
        \/ LnEvent(t)
        \/ LnJournal(t)
        \/ JReturn(t)
        \/ SpBuild(t)
        \/ SpRegister(t)
        \/ SpEntities(t)
        \/ SpReturn(t)
        \/ GnReturn(t)
        \/ CallGetActiveSession(t)
        \/ GaCheck(t)
        \/ \E session_id \in known \cup {UnknownSid} :
              CallSetActiveSession(t, session_id)
        \/ SaCheck(t)
        \/ SaSet(t)
        \/ CallListSessions(t)
        \/ LsNext(t)
        \/ RdTurn(t)
        \/ RdPosition(t)
        \/ RdHeading(t)

SpecConc == Init /\ [][ConcNext]_vars

-----------------------------------------------------------------------------
(* Two sessions and concurrent callers of the session-addressed handlers. *)
(* The starting state is the one two completed start_session calls leave: *)
(* sessions 1 and 2 with their locks, session 2 active; two of the        *)
(* MaxCalls invocations remain.                                           *)

StartedSession(session_id, event_id) ==
    AfterPayload(AppendEventTo(NewSessionState(session_id, None, None, 80),
                               event_id, "session_start",
                               [position |-> Pos(0, 0, 0)]))

InitTwo ==
    /\ SESSIONS = (1 :> StartedSession(1, 1)) @@ (2 :> StartedSession(2, 2))
    /\ ACTIVE_SESSION_ID = 2
    /\ SESSION_LOCKS = (1 :> 0) @@ (2 :> 0)
    /\ NEXT_EVENT_ID = 3
    /\ uuids = 2
    /\ ret = Returned("init", NoSid, None, None)
    /\ pre = NoBefore
    /\ issued = <<1, 2>>
    /\ known = {1, 2}
    /\ calls = 1
    /\ pc = [t \in Threads |-> "idle"]
    /\ loc = [t \in Threads |-> IdleLoc]
    /\ clock = 0
    /\ globalRng = [state |-> 0, draws |-> 0]
    /\ genLog = <<>>
    /\ dice = <<>>
    /\ COMBAT = <<>>
    /\ last_d20_roll = NoRoll

\* the next statement of thread t inside a session-addressed handler
HandlerStep(t) ==
    \/ Resolve(t)
    \/ Acquire(t)
    \/ MNormalize(t)
    \/ MPosition(t)
    \/ MHeading(t)
    \/ MTurn(t)
    \/ MTile(t)
    \/ AeRead(t)
    \/ AeLoad(t)
    \/ AeStore(t)
    \/ AeAppend(t)
    \/ MReturn(t)
    \/ LReturn(t)
    \/ LnEvent(t)
    \/ LnJournal(t)
    \/ JReturn(t)
    \/ SpBuild(t)
    \/ SpRegister(t)
    \/ SpEntities(t)
    \/ SpReturn(t)
    \/ GnReturn(t)

TwoNext ==
    \E t \in Threads :
        \/ \E direction \in ConcMoveInputs, session_id \in ConcSidInputs :
              CallMove(t, direction, session_id)
        \/ \E session_id \in ConcSidInputs : CallLook(t, session_id)
        \/ \E text \in ConcTextInputs, event_id \in EventIdInputs,
              session_id \in ConcSidInputs :
              CallLogNarrative(t, text, event_id, session_id)
        \/ \E session_id \in ConcSidInputs : CallJournal(t, session_id)
        \/ \E session_id \in ConcSidInputs : CallSpawnNpc(t, None, None, session_id)
        \/ \E npc_id \in NpcIdInputs, session_id \in ConcSidInputs :
              CallGetNpc(t, npc_id, session_id)
        \/ HandlerStep(t)

SpecTwo == InitTwo /\ [][TwoNext]_vars

\* the scheduler runs every thread that can take a step
SpecTwoFair == SpecTwo /\ \A t \in Threads : WF_vars(HandlerStep(t))

-----------------------------------------------------------------------------
(* tools/dnd_tools.py: the dice functions.  A notation is a sequence of   *)
(* characters; random.randint(1, sides) is any value of 1..sides.         *)

Digits == <<"0", "1", "2", "3", "4", "5", "6", "7", "8", "9">>

DigitValue(c) == (CHOOSE i \in 1..10 : Digits[i] = c) - 1

\* str.lower(), on the characters of the model
LowerChars(s) == [i \in 1..Len(s) |-> IF s[i] = "D" THEN "d" ELSE s[i]]

\* variant of str.strip() that trims the front only
RECURSIVE StripFront(_)
StripFront(s) ==
    IF s = <<>> THEN s
    ELSE IF Head(s) = " " THEN StripFront(Tail(s))
    ELSE s

\* str.strip()
RECURSIVE Strip(_)
Strip(s) ==
    IF s = <<>> THEN s
    ELSE IF Head(s) = " " THEN Strip(Tail(s))
    ELSE IF s[Len(s)] = " " THEN Strip(SubSeq(s, 1, Len(s) - 1))
    ELSE s

\* str.isdigit(): false for the empty string
IsDigit(s) == s # <<>> /\ \A i \in 1..Len(s) : \E k \in 1..10 : Digits[k] = s[i]

\* int() of a string of digits
RECURSIVE ToInt(_)
ToInt(s) ==
    IF s = <<>> THEN 0
    ELSE 10 * ToInt(SubSeq(s, 1, Len(s) - 1)) + DigitValue(s[Len(s)])

\* the decimal digits of a natural number, as an f-string writes it
RECURSIVE Format(_)
Format(n) ==
    IF n < 10 THEN <<Digits[n + 1]>>
    ELSE Format(n \div 10) \o <<Digits[(n % 10) + 1]>>

HasD(s) == \E i \in 1..Len(s) : s[i] = "d"

\* s.split("d", 1)
SplitD(s) ==
    LET i == CHOOSE k \in 1..Len(s) :
                 s[k] = "d" /\ \A j \in 1..(k - 1) : s[j] # "d"
    IN  [count_str |-> SubSeq(s, 1, i - 1),
         sides_str |-> SubSeq(s, i + 1, Len(s))]

DiceError(msg) == [ok |-> FALSE, msg |-> msg]

parse_dice_notation(notation) ==
    LET s == Strip(LowerChars(notation))
    IN  IF ~HasD(s)
        THEN DiceError("Use NdM format (e.g., '2d20') or shorthand 'd20'")
        ELSE LET parts == SplitD(s)
             IN  IF ~IsDigit(parts.sides_str)
                 THEN DiceError("Number of sides must be digits after 'd', e.g., 'd20'")
                 ELSE IF parts.count_str # <<>> /\ ~IsDigit(parts.count_str)
                 THEN DiceError("Number of dice must be digits before 'd', e.g., '2d6'")
                 ELSE LET sides == ToInt(parts.sides_str)
                          count == IF parts.count_str = <<>> THEN 1
                                   ELSE ToInt(parts.count_str)
                      IN  IF count <= 0 \/ sides <= 0
                          THEN DiceError("Count and sides must be positive")
                          ELSE [ok |-> TRUE, count |-> count, sides |-> sides]

RECURSIVE Sum(_)
Sum(rolls) == IF rolls = <<>> THEN 0 ELSE Head(rolls) + Sum(Tail(rolls))

\* the result of roll_dice for the values drawn
RollResult(count, sides, rolls) ==
    [notation |-> Format(count) \o <<"d">> \o Format(sides),
     count |-> count, sides |-> sides, rolls |-> rolls, total |-> Sum(rolls)]

\* the single die of roll_with_advantage and roll_with_disadvantage:
\* "dM", or "1dM" through parse_dice_notation
SingleDie(notation, dm_msg, digits_msg, single_msg) ==
    LET s == Strip(LowerChars(notation))
    IN  IF s = <<>> \/ ~HasD(s) THEN DiceError(dm_msg)
        ELSE IF Head(s) = "d"
        THEN IF ~IsDigit(Tail(s)) THEN DiceError(digits_msg)
             ELSE IF ToInt(Tail(s)) <= 0
             THEN DiceError("Sides must be positive")
             ELSE [ok |-> TRUE, sides |-> ToInt(Tail(s))]
        ELSE LET parsed == parse_dice_notation(s)
             IN  IF ~parsed.ok THEN parsed
                 ELSE IF parsed.count # 1 THEN DiceError(single_msg)
                 ELSE [ok |-> TRUE, sides |-> parsed.sides]

Max(a, b) == IF a >= b THEN a ELSE b

Min(a, b) == IF a <= b THEN a ELSE b

\* variant of the two draws of roll_with_advantage that keeps the first
TwoRollResultOfFirst(sides, first, second, result) ==
    LET is_crit_success == sides = 20 /\ first = 20
        is_crit_fail == sides = 20 /\ first = 1
    IN  [notation |-> <<"d">> \o Format(sides),
         sides |-> sides,
         rolls |-> <<first, second>>,
         result |-> first,
         is_critical_success |-> is_crit_success,
         is_critical_fail |-> is_crit_fail,
         message |-> IF is_crit_success THEN "Critical success"
                     ELSE IF is_crit_fail THEN "Critical fail" ELSE ""]

\* the result of the two draws, result being their maximum or minimum
TwoRollResult(sides, first, second, result) ==
    LET is_crit_success == sides = 20 /\ result = 20
        is_crit_fail == sides = 20 /\ result = 1
    IN  [notation |-> <<"d">> \o Format(sides),
         sides |-> sides,
         rolls |-> <<first, second>>,
         result |-> result,
         is_critical_success |-> is_crit_success,
         is_critical_fail |-> is_crit_fail,
         message |-> IF is_crit_success THEN "Critical success"
                     ELSE IF is_crit_fail THEN "Critical fail" ELSE ""]

DiceRaise(op, msg) == ret' = Raised(op, NoSid, dice, "ValueError", msg)

diceOnly == <<SESSIONS, ACTIVE_SESSION_ID, SESSION_LOCKS, NEXT_EVENT_ID,
              uuids, pre, issued, known, calls, pc, loc, clock, globalRng,
              genLog, dice, COMBAT, last_d20_roll>>

roll_dice ==
    /\ LET parsed == parse_dice_notation(dice)
       IN  IF ~parsed.ok THEN DiceRaise("roll_dice", parsed.msg)
           ELSE \E rolls \in [1..parsed.count -> 1..parsed.sides] :
                   ret' = Returned("roll_dice", NoSid, dice,
                                   RollResult(parsed.count, parsed.sides, rolls))
    /\ UNCHANGED diceOnly

roll_with_advantage ==
    /\ LET die == SingleDie(dice, "Use dM format, e.g., 'd20'",
                    "Use dM format with digits after 'd', e.g., 'd20'",
                    "Advantage uses a single die: use 'd20', not '2d20'")
       IN  IF ~die.ok THEN DiceRaise("roll_with_advantage", die.msg)
           ELSE \E first \in 1..die.sides, second \in 1..die.sides :
                   ret' = Returned("roll_with_advantage", NoSid, dice,
                                   TwoRollResult(die.sides, first, second,
                                                 Max(first, second)))
    /\ UNCHANGED diceOnly

\* variant of roll_with_disadvantage that keeps the higher draw
RollTwiceKeepHigher ==
    /\ LET die == SingleDie(dice, "Use dM format, e.g., 'd20'",
                    "Use dM format with digits after 'd', e.g., 'd20'",
                    "Disadvantage uses a single die: use 'd20', not '2d20'")
       IN  IF ~die.ok
           THEN ret' = Raised("roll_with_disadvantage", NoSid, dice,
                              "ValueError", die.msg)
           ELSE \E first \in 1..die.sides, second \in 1..die.sides :
                   ret' = Returned("roll_with_disadvantage", NoSid, dice,
                             [notation |-> <<"d">> \o Format(die.sides),
                              sides |-> die.sides,
                              rolls |-> <<first, second>>,
                              result |-> IF first >= second THEN first
                                         ELSE second,
                              is_critical_success |->
                                  die.sides = 20 /\ first = 20 /\ second = 20,
                              is_critical_fail |->
                                  die.sides = 20
                                  /\ (first = 1 \/ second = 1),
                              message |-> ""])
    /\ UNCHANGED <<SESSIONS, ACTIVE_SESSION_ID, SESSION_LOCKS, NEXT_EVENT_ID,
                   uuids, pre, issued, known, calls, pc, loc, clock,
                   globalRng, genLog, dice, COMBAT, last_d20_roll>>

roll_with_disadvantage ==
    /\ LET die == SingleDie(dice, "Use dM format, e.g., 'd20'",
                    "Use dM format with digits after 'd', e.g., 'd20'",
                    "Disadvantage uses a single die: use 'd20', not '2d20'")
       IN  IF ~die.ok THEN DiceRaise("roll_with_disadvantage", die.msg)
           ELSE \E first \in 1..die.sides, second \in 1..die.sides :
                   ret' = Returned("roll_with_disadvantage", NoSid, dice,
                                   TwoRollResult(die.sides, first, second,
                                                 Min(first, second)))
    /\ UNCHANGED diceOnly

\* the result of roll_damage for the result of its roll_dice
DamageRollResult(base, crit_multiplier) ==
    [notation |-> base.notation,
     rolls |-> base.rolls,
     total |-> base.total * Max(1, crit_multiplier),
     crit_multiplier |-> Max(1, crit_multiplier)]

CritMultipliers == {0, 1, 2}

roll_damage(crit_multiplier) ==
    /\ LET parsed == parse_dice_notation(dice)
       IN  IF ~parsed.ok THEN DiceRaise("roll_damage", parsed.msg)
           ELSE \E rolls \in [1..parsed.count -> 1..parsed.sides] :
                   ret' = Returned("roll_damage", NoSid, dice,
                              DamageRollResult(
                                  RollResult(parsed.count, parsed.sides, rolls),
                                  crit_multiplier))
    /\ UNCHANGED diceOnly

\* the notations the callers of the model hand in
DiceNotations ==
    {<<"d", "2", "0">>, <<" ", "1", "D", "4", " ">>,
     <<"d", "6">>, <<"2", "d", "6">>, <<"d", "1">>,
     <<"d", "0">>, <<"0", "d", "6">>, <<"d">>, <<"2", "0">>, <<>>,
     <<"d", "x">>, <<"x", "d", "6">>, <<"d", " ", "6">>}

InitDice ==
    /\ SESSIONS = <<>>
    /\ ACTIVE_SESSION_ID = NoSid
    /\ SESSION_LOCKS = <<>>
    /\ NEXT_EVENT_ID = 1
    /\ uuids = 0
    /\ ret = Returned("init", NoSid, None, None)
    /\ pre = NoBefore
    /\ issued = <<>>
    /\ known = {}
    /\ calls = 0
    /\ pc = [t \in Threads |-> "idle"]
    /\ loc = [t \in Threads |-> IdleLoc]
    /\ clock = 0
    /\ globalRng = [state |-> 0, draws |-> 0]
    /\ genLog = <<>>
    /\ dice \in DiceNotations
    /\ COMBAT = <<>>
    /\ last_d20_roll = NoRoll

DiceNext ==
    \/ roll_dice
    \/ roll_with_advantage
    \/ roll_with_disadvantage
    \/ \E crit_multiplier \in CritMultipliers : roll_damage(crit_multiplier)

SpecDice == InitDice /\ [][DiceNext]_vars

-----------------------------------------------------------------------------
(* Combat.  ui/client.py and loop.py call generate_encounter, attack,     *)
(* combat_status and combat_end of tools.llm_tools_server, which does not *)
(* define them: the four are modelled from the specification, as whole    *)
(* calls on the active session.  A session is Idle while it has no entry  *)
(* in COMBAT, Active while its entry's flag is set, Resolved while its    *)
(* entry's flag is cleared.  The notation of the damage dice is parsed by *)
(* parse_dice_notation of tools/dnd_tools.py, and the arguments of attack *)
(* are those of the callers in ui/client.py and loop.py, player_roll      *)
(* included.  The specification does not say when the round counter       *)
(* advances: the model leaves it at 1.                                    *)

ArmorClasses == {10, 15}

AttackFlags == {"none", "advantage", "disadvantage"}

\* the values a d20 shows when it is drawn twice
TwoDraws == {1, 10, 20}

\* the d20 the player rolled before a plain attack (loop.py)
PlayerRolls == {10}

DamageNotations == {<<"d", "2">>, <<"x">>}

Enemy(i, armor_class) ==
    [id |-> i, name |-> "Gruk", kind |-> "goblin", hp |-> EnemyHp,
     max_hp |-> EnemyHp, armor_class |-> armor_class]

IsActive(sid) == sid \in DOMAIN COMBAT /\ COMBAT[sid].active

Alive(enemies) == {i \in 1..Len(enemies) : enemies[i].hp > 0}

\* the first still-alive enemy
FirstAlive(enemies) ==
    CHOOSE i \in Alive(enemies) : \A j \in Alive(enemies) : i <= j

NoActiveCombat == [active |-> FALSE]

combatOnly == <<ACTIVE_SESSION_ID, SESSION_LOCKS, uuids, pre, known, pc, loc,
                clock, globalRng, genLog, dice, last_d20_roll>>

\* variant of the hit rule in which a roll equal to the armor class misses
HitsAbove(r, armor_class) == r = 20 \/ (r # 1 /\ r > armor_class)

\* natural 20 hits, natural 1 misses, otherwise the roll against the armor
\* class
Hits(r, armor_class) == r = 20 \/ (r # 1 /\ r >= armor_class)

\* the draws of the attack die: one, or the player's own roll, or two
AttackRolls(flag, player_roll) ==
    IF flag = "none"
    THEN IF player_roll # NoRoll THEN {<<player_roll>>}
         ELSE {<<r>> : r \in 1..20}
    ELSE {<<first, second>> : first \in TwoDraws, second \in TwoDraws}

KeptRoll(flag, rolls) ==
    IF flag = "advantage" THEN Max(rolls[1], rolls[2])
    ELSE IF flag = "disadvantage" THEN Min(rolls[1], rolls[2])
    ELSE rolls[1]

\* the damage dice: none on a miss, the notation once on a hit, twice on a
\* critical hit
DamageDraws(parsed, hit, critical) ==
    IF ~hit THEN {<<>>}
    ELSE IF critical THEN [1..(2 * parsed.count) -> 1..parsed.sides]
    ELSE [1..parsed.count -> 1..parsed.sides]

\* variant of the subtraction that is not floored
ApplyDamageUnfloored(combat, target, total) ==
    LET enemies == [combat.enemies EXCEPT ![target].hp = @ - total]
    IN  [combat EXCEPT !.enemies = enemies,
                       !.active = Alive(enemies) # {}]

\* the damage subtracted from the target, floored at zero; the combat is
\* resolved when no enemy is left alive
ApplyDamage(combat, target, total) ==
    LET enemies == [combat.enemies EXCEPT ![target].hp = Max(0, @ - total)]
    IN  [combat EXCEPT !.enemies = enemies,
                       !.active = Alive(enemies) # {}]

\* variant of the checks of attack with the notation checked first
AttackFailureNotationFirst(sid, parsed) ==
    IF ~parsed.ok THEN "InvalidArgument"
    ELSE IF ~(sid \in DOMAIN COMBAT /\ COMBAT[sid].active) THEN "InvalidState"
    ELSE None

\* the checks of attack, before any roll
AttackFailure(sid, parsed) ==
    IF ~IsActive(sid) THEN "InvalidState"
    ELSE IF ~parsed.ok THEN "InvalidArgument"
    ELSE None

\* variant of the end of combat that leaves an Active combat in place
EndedIfResolved(combats, sid) ==
    IF sid \in DOMAIN combats /\ combats[sid].active THEN combats
    ELSE [s \in DOMAIN combats \ {sid} |-> combats[s]]

\* the combat sub-states after the combat of sid was ended
Ended(combats, sid) == [s \in DOMAIN combats \ {sid} |-> combats[s]]

generate_encounter(name, kind) ==
    LET sid == ACTIVE_SESSION_ID
    IN  /\ KnownSid(sid)
        /\ EventsLeft
        /\ \E n \in 1..MaxEnemies :
           \E acs \in [1..n -> ArmorClasses] :
              LET combat == [active |-> TRUE, round |-> 1,
                             enemies |-> [i \in 1..n |-> Enemy(i, acs[i])]]
                  session == AppendEventTo(AfterPayload(SESSIONS[sid]),
                                 NEXT_EVENT_ID, "encounter",
                                 [enemies |-> n])
              IN  /\ COMBAT' = (sid :> combat) @@ COMBAT
                  /\ SESSIONS' = [SESSIONS EXCEPT ![sid] = session]
                  /\ ret' = Returned("generate_encounter", sid, None,
                                [snapshot |-> _public_tile_payload(session),
                                 combat |-> combat,
                                 event_id |-> NEXT_EVENT_ID])
        /\ NEXT_EVENT_ID' = NEXT_EVENT_ID + 1
        /\ issued' = Append(issued, NEXT_EVENT_ID)
        /\ UNCHANGED calls
        /\ UNCHANGED combatOnly

attack(weapon, damage, flag, player_roll) ==
    LET sid == ACTIVE_SESSION_ID
        parsed == parse_dice_notation(damage)
        failure == AttackFailure(sid, parsed)
        arg == [weapon |-> weapon, damage |-> damage, flag |-> flag,
                player_roll |-> player_roll]
    IN  /\ KnownSid(sid)
        /\ IF failure # None
           THEN /\ ret' = Raised("attack", sid, arg, failure,
                                 IF failure = "InvalidState"
                                 THEN "No active combat" ELSE parsed.msg)
                /\ UNCHANGED <<COMBAT, calls>>
           ELSE /\ calls < MaxAttacks
                /\ calls' = calls + 1
                /\ \E rolls \in AttackRolls(flag, player_roll) :
                      LET r == KeptRoll(flag, rolls)
                          combat == COMBAT[sid]
                          target == FirstAlive(combat.enemies)
                          armor_class == combat.enemies[target].armor_class
                          critical == r = 20
                          hit == Hits(r, armor_class)
                      IN  \E damage_rolls \in DamageDraws(parsed, hit, critical) :
                             LET total == Sum(damage_rolls)
                                 after == ApplyDamage(combat, target, total)
                             IN  /\ COMBAT' = [COMBAT EXCEPT ![sid] = after]
                                 /\ ret' = Returned("attack", sid, arg,
                                       [rolls |-> rolls, roll |-> r,
                                        target |-> target,
                                        armor_class |-> armor_class,
                                        hit |-> hit, critical |-> critical,
                                        count |-> parsed.count,
                                        sides |-> parsed.sides,
                                        damage_rolls |-> damage_rolls,
                                        damage |-> total,
                                        combat |-> after])
        /\ UNCHANGED <<SESSIONS, NEXT_EVENT_ID, issued>>
        /\ UNCHANGED combatOnly

\* the enemies at zero HP leave the combat at the status query
combat_status ==
    LET sid == ACTIVE_SESSION_ID
    IN  /\ KnownSid(sid)
        /\ IF IsActive(sid)
           THEN LET combat == [COMBAT[sid] EXCEPT !.enemies =
                                  SelectSeq(@, LAMBDA e : e.hp > 0)]
                IN  /\ COMBAT' = [COMBAT EXCEPT ![sid] = combat]
                    /\ ret' = Returned("combat_status", sid, None, combat)
           ELSE /\ ret' = Returned("combat_status", sid, None, NoActiveCombat)
                /\ UNCHANGED COMBAT
        /\ UNCHANGED <<SESSIONS, NEXT_EVENT_ID, issued, calls>>
        /\ UNCHANGED combatOnly

combat_end ==
    LET sid == ACTIVE_SESSION_ID
    IN  /\ KnownSid(sid)
        /\ COMBAT' = Ended(COMBAT, sid)
        /\ ret' = Returned("combat_end", sid, None, "The battle is finished.")
        /\ UNCHANGED <<SESSIONS, NEXT_EVENT_ID, issued, calls>>
        /\ UNCHANGED combatOnly

InitCombat ==
    /\ SESSIONS = (1 :> StartedSession(1, 1))
    /\ ACTIVE_SESSION_ID = 1
    /\ SESSION_LOCKS = (1 :> 0)
    /\ NEXT_EVENT_ID = 2
    /\ uuids = 1
    /\ ret = Returned("init", NoSid, None, None)
    /\ pre = NoBefore
    /\ issued = <<1>>
    /\ known = {1}
    /\ calls = 0
    /\ pc = [t \in Threads |-> "idle"]
    /\ loc = [t \in Threads |-> IdleLoc]
    /\ clock = 0
    /\ globalRng = [state |-> 0, draws |-> 0]
    /\ genLog = <<>>
    /\ dice = <<>>
    /\ COMBAT = <<>>
    /\ last_d20_roll = NoRoll

CombatNext ==
    \/ generate_encounter(None, None)
    \/ \E damage \in DamageNotations, flag \in AttackFlags :
          attack("attack", damage, flag, NoRoll)
    \/ \E damage \in DamageNotations, player_roll \in PlayerRolls :
          attack("attack", damage, "none", player_roll)
    \/ combat_status
    \/ combat_end

SpecCombat == InitCombat /\ [][CombatNext]_vars

-----------------------------------------------------------------------------
(* The session store over its whole life: start_session and               *)
(* set_active_session as the source has them, a thread switch possible    *)
(* before each statement that reads or writes the store or the pointer,   *)
(* with end_session and reset_all.  ui/client.py imports endSession and   *)
(* resetAll from tools.llm_tools_server, which does not define them: the  *)
(* two are modelled from the specification (a session is destroyed by an  *)
(* explicit end operation or a global reset; end_session fails for an     *)
(* absent session), each as one indivisible step that also keeps the      *)
(* pointer off the sessions it destroys.                                  *)

lifeOnly == <<pre, clock, globalRng, genLog, dice, COMBAT, last_d20_roll>>

\* the session_id arguments: an id that was never issued, and the ids the
\* callers have been given
LifeSidInputs == {UnknownSid} \cup known

\* start_session up to the return of _new_session
LcStart(t) ==
    /\ Cardinality(DOMAIN SESSIONS) < MaxSessions
    /\ EventsLeft
    /\ LET session_id == uuids + 1
           state == AppendEventTo(
                        NewSessionState(session_id, None, None, 80),
                        NEXT_EVENT_ID, "session_start",
                        [position |-> Pos(0, 0, 0)])
       IN  /\ Invoke(t, "lc_active",
                     [op |-> "start_session", sid |-> session_id,
                      state |-> state])
           /\ uuids' = uuids + 1
           /\ SESSIONS' = (session_id :> state) @@ SESSIONS
           /\ SESSION_LOCKS' = SetDefault(SESSION_LOCKS, session_id, 0)
           /\ NEXT_EVENT_ID' = NEXT_EVENT_ID + 1
           /\ issued' = Append(issued, NEXT_EVENT_ID)
    /\ UNCHANGED <<ACTIVE_SESSION_ID, known>>
    /\ UNCHANGED lifeOnly

\* _ACTIVE_SESSION_ID = state["session_id"], and the return of the payload
\* built from the state the thread holds
LcActive(t) ==
    /\ pc[t] = "lc_active"
    /\ ACTIVE_SESSION_ID' = loc[t].sid
    /\ Finish(t, Returned("start_session", loc[t].sid, None,
                          _public_tile_payload(loc[t].state)))
    /\ known' = known \cup {loc[t].sid}
    /\ UNCHANGED <<SESSIONS, SESSION_LOCKS, NEXT_EVENT_ID, uuids, issued>>
    /\ UNCHANGED lifeOnly

LcCallSet(t, session_id) ==
    /\ Invoke(t, "lc_check",
              [op |-> "set_active_session", session_id |-> session_id])
    /\ UNCHANGED <<SESSIONS, ACTIVE_SESSION_ID, SESSION_LOCKS, NEXT_EVENT_ID,
                   uuids, issued, known>>
    /\ UNCHANGED lifeOnly

\* if session_id not in _SESSIONS: raise
LcCheck(t) ==
    /\ pc[t] = "lc_check"
    /\ IF loc[t].session_id \in DOMAIN SESSIONS
       THEN Step(t, "lc_set", loc[t])
       ELSE Finish(t, Raised("set_active_session", loc[t].session_id, None,
                             "ValueError", "Unknown session_id"))
    /\ UNCHANGED <<SESSIONS, ACTIVE_SESSION_ID, SESSION_LOCKS, NEXT_EVENT_ID,
                   uuids, issued, known>>
    /\ UNCHANGED lifeOnly

\* _ACTIVE_SESSION_ID = session_id
LcSet(t) ==
    /\ pc[t] = "lc_set"
    /\ ACTIVE_SESSION_ID' = loc[t].session_id
    /\ Step(t, "lc_brief", loc[t])
    /\ UNCHANGED <<SESSIONS, SESSION_LOCKS, NEXT_EVENT_ID, uuids, issued,
                   known>>
    /\ UNCHANGED lifeOnly

\* s = _SESSIONS[session_id] and the return of its brief status
LcBrief(t) ==
    /\ pc[t] = "lc_brief"
    /\ IF loc[t].session_id \in DOMAIN SESSIONS
       THEN Finish(t, Returned("set_active_session", loc[t].session_id, None,
                               Brief(loc[t].session_id,
                                     SESSIONS[loc[t].session_id])))
       ELSE Finish(t, Raised("set_active_session", loc[t].session_id, None,
                             "KeyError", "session_id"))
    /\ UNCHANGED <<SESSIONS, ACTIVE_SESSION_ID, SESSION_LOCKS, NEXT_EVENT_ID,
                   uuids, issued, known>>
    /\ UNCHANGED lifeOnly

\* the store without the session session_id
Without(sessions, session_id) ==
    [sid \in DOMAIN sessions \ {session_id} |-> sessions[sid]]

\* end_session(session_id), a whole call of an idle thread
EndSession(t, session_id) ==
    /\ pc[t] = "idle"
    /\ calls < MaxCalls
    /\ calls' = calls + 1
    /\ IF session_id \in DOMAIN SESSIONS
       THEN /\ SESSIONS' = Without(SESSIONS, session_id)
            /\ ACTIVE_SESSION_ID' = IF ACTIVE_SESSION_ID = session_id
                                    THEN NoSid ELSE ACTIVE_SESSION_ID
            /\ ret' = Returned("end_session", session_id, None,
                               [ok |-> TRUE])
       ELSE /\ ret' = Raised("end_session", session_id, None, "ValueError",
                             NoSession)
            /\ UNCHANGED <<SESSIONS, ACTIVE_SESSION_ID>>
    /\ UNCHANGED <<SESSION_LOCKS, NEXT_EVENT_ID, uuids, issued, known, pc,
                   loc>>
    /\ UNCHANGED lifeOnly

\* reset_all(), a whole call of an idle thread
ResetAll(t) ==
    /\ pc[t] = "idle"
    /\ calls < MaxCalls
    /\ calls' = calls + 1
    /\ SESSIONS' = <<>>
    /\ ACTIVE_SESSION_ID' = NoSid
    /\ ret' = Returned("reset_all", NoSid, None, [ok |-> TRUE])
    /\ UNCHANGED <<SESSION_LOCKS, NEXT_EVENT_ID, uuids, issued, known, pc,
                   loc>>
    /\ UNCHANGED lifeOnly

LifeNext ==
    \E t \in Threads :
        \/ LcStart(t)
        \/ LcActive(t)
        \/ \E session_id \in LifeSidInputs : LcCallSet(t, session_id)
        \/ LcCheck(t)
        \/ LcSet(t)
        \/ LcBrief(t)
        \/ \E session_id \in LifeSidInputs : EndSession(t, session_id)
        \/ ResetAll(t)

SpecLife == Init /\ [][LifeNext]_vars

-----------------------------------------------------------------------------
(* Properties *)

\* C1: under concurrent callers every event id issued is greater than every
\* id issued before it, so that no two events carry the same id.
C1_IssuedIdsIncrease ==
    \A i, j \in 1..Len(issued) : i < j => issued[i] < issued[j]

\* C2: under concurrent callers the event ids of every session's log are
\* strictly increasing in log order.
C2_LogIdsIncrease ==
    \A sid \in DOMAIN SESSIONS :
        \A i, j \in 1..Len(SESSIONS[sid].events) :
            i < j => SESSIONS[sid].events[i].event_id
                        < SESSIONS[sid].events[j].event_id

\* thread t is between the first read and the last write of a
\* read-modify-write of session sid
MidWrite(t, sid) ==
    \/ /\ pc[t] \in {"m_position", "m_heading", "m_turn", "m_tile",
                     "m_return", "ln_journal", "sp_register", "sp_entities",
                     "ae_read", "ae_load", "ae_store", "ae_append",
                     "ns_lock", "ss_active", "ss_return"}
       /\ loc[t].sid = sid

\* thread t is between the first and the last read of session sid's
\* turn, position and heading
MidRead(t, sid) ==
    /\ pc[t] \in {"rd_position", "rd_heading"}
    /\ loc[t].cur = sid

\* C3: no two threads are ever inside the same session's state at the same
\* time with at least one of them writing (every read-modify-write runs
\* under the session's lock from its first read to its last write).
C3_NoConcurrentAccess ==
    \A sid \in DOMAIN SESSIONS :
        \A t, u \in Threads :
            t # u => ~(MidWrite(t, sid) /\ (MidWrite(u, sid) \/ MidRead(u, sid)))

\* C4: a call that raises leaves the sessions, the active-session pointer
\* and the event-id counter exactly as they were before the call.
C4_FailureChangesNothing ==
    [][~ret'.ok =>
          /\ SESSIONS' = SESSIONS
          /\ ACTIVE_SESSION_ID' = ACTIVE_SESSION_ID
          /\ NEXT_EVENT_ID' = NEXT_EVENT_ID]_vars

NoRepeats(seq) == \A i, j \in 1..Len(seq) : i # j => seq[i] # seq[j]

\* C7: every cached tile has a non-empty exit list of distinct cardinal
\* directions; when the four draws selected none, exactly one is forced in,
\* and otherwise the exits are the directions drawn.
C7_ExitsNonEmpty ==
    \A sid \in DOMAIN SESSIONS :
        \A key \in DOMAIN SESSIONS[sid].tiles :
            LET t == SESSIONS[sid].tiles[key]
                exits == t.tile.exits
                drawn == ExitDraws(ExitRngState(t.seed)).exits
            IN  /\ exits # <<>>
                /\ \A i \in 1..Len(exits) :
                      exits[i] \in {"north", "east", "south", "west"}
                /\ NoRepeats(exits)
                /\ drawn = <<>> => Len(exits) = 1
                /\ drawn # <<>> => exits = drawn

\* a cached tile whose four draws selected no direction
C7_Witness ==
    \E sid \in DOMAIN SESSIONS :
        \E key \in DOMAIN SESSIONS[sid].tiles :
            /\ ExitDraws(ExitRngState(SESSIONS[sid].tiles[key].seed)).exits
                 = <<>>
            /\ Len(SESSIONS[sid].tiles[key].tile.exits) = 1

\* C8: right after start_session the new session is at (0,0,0), heads north,
\* is at turn 0, has the tile at (0,0,0) cached with at least one exit and
\* has a session_start event in its log; the snapshot returned reports
\* these values.
C8_StartSessionState ==
    (ret.op = "start_session" /\ ret.ok) =>
        LET s == SESSIONS[ret.sid]
            v == ret.value
        IN  /\ s.position = Pos(0, 0, 0)
            /\ s.heading = "north"
            /\ s.turn = 0
            /\ <<0, 0, 0>> \in DOMAIN s.tiles
            /\ Len(s.tiles[<<0, 0, 0>>].tile.exits) >= 1
            /\ Len(s.events) = 1
            /\ s.events[1].type = "session_start"
            /\ s.events[1].event_id = NEXT_EVENT_ID - 1
            /\ v.session_id = ret.sid
            /\ v.position = Pos(0, 0, 0)
            /\ v.heading = "north"
            /\ v.turn = 0
            /\ v.tile = s.tiles[<<0, 0, 0>>].tile
            /\ v.exits = s.tiles[<<0, 0, 0>>].tile.exits
            /\ Len(v.exits) >= 1

\* a second session has just been started while the first has moved on
C8_Witness ==
    /\ ret.op = "start_session"
    /\ ret.ok
    /\ Cardinality(DOMAIN SESSIONS) = 2
    /\ \E sid \in DOMAIN SESSIONS : SESSIONS[sid].turn > 0

\* the displacement the claim gives for each absolute direction
C9_Delta(d) ==
    CASE d = "north" -> <<0, 1, 0>>
      [] d = "south" -> <<0, -1, 0>>
      [] d = "east"  -> <<1, 0, 0>>
      [] d = "west"  -> <<-1, 0, 0>>
      [] d = "up"    -> <<0, 0, 1>>
      [] d = "down"  -> <<0, 0, -1>>

\* C9: a successful move from p in absolute direction d leaves the session at
\* p + delta(d) with the destination tile cached, appends exactly one move
\* event recording from, to, direction and heading, and returns that
\* event's id with a snapshot of the new position and tile.
C9_MoveEffect ==
    (ret.op = "move" /\ ret.ok) =>
        LET s == SESSIONS[ret.sid]
            before == pre.session
            p == before.position
            nd == NormalizeDirection(ret.arg, before.heading)
            dl == C9_Delta(nd.abs_dir)
            key == <<s.position.x, s.position.y, s.position.z>>
        IN  /\ s.position = Pos(p.x + dl[1], p.y + dl[2], p.z + dl[3])
            /\ s.turn = before.turn + 1
            /\ key \in DOMAIN s.tiles
            /\ s.events = Append(before.events,
                             [event_id |-> ret.value.event_id,
                              type |-> "move",
                              payload |-> [from |-> p, to |-> s.position,
                                           dir |-> nd.abs_dir,
                                           heading |-> s.heading]])
            /\ \A i \in 1..Len(before.events) :
                  before.events[i].event_id < ret.value.event_id
            /\ ret.value.snapshot.position = s.position
            /\ ret.value.snapshot.tile = s.tiles[key].tile
            /\ ret.value.snapshot.turn = s.turn

\* a relative move has just succeeded from a heading other than north
C9_Witness ==
    /\ ret.op = "move"
    /\ ret.ok
    /\ ret.arg = "back"
    /\ pre.session.heading = "east"
    /\ SESSIONS[ret.sid].position = Pos(0, 0, 0)

\* the token as _normalize_direction reads it
C10_Token(direction) ==
    LET s0 == StripLower(direction)
    IN  IF s0 \in DOMAIN _DIR_ALIASES THEN _DIR_ALIASES[s0] ELSE s0

\* a direction followed by its opposite
C10_Opposite(a, b) ==
    <<C10_Token(a), C10_Token(b)>> \in
        {<<"north", "south">>, <<"south", "north">>,
         <<"east", "west">>, <<"west", "east">>,
         <<"up", "down">>, <<"down", "up">>,
         <<"forward", "back">>}

\* C10: a successful move followed by a successful move in the opposite
\* direction on the same session brings the position back to what it was
\* before the first and leaves the turn counter 2 higher.
C10_RoundTrip ==
    [][(/\ ret.op = "move" /\ ret.ok
        /\ ret'.op = "move" /\ ret'.ok
        /\ ret'.sid = ret.sid
        /\ C10_Opposite(ret.arg, ret'.arg)) =>
          /\ SESSIONS'[ret.sid].position = pre.session.position
          /\ SESSIONS'[ret.sid].turn = pre.session.turn + 2]_vars

\* forward and then back have just been moved, out of the origin and back
C10_Witness ==
    /\ ret.op = "move"
    /\ ret.ok
    /\ ret.arg = "back"
    /\ Len(SESSIONS[ret.sid].events) = 3
    /\ SESSIONS[ret.sid].events[2].payload.dir = "north"
    /\ SESSIONS[ret.sid].events[3].payload.dir = "south"
    /\ SESSIONS[ret.sid].turn = 2
    /\ SESSIONS[ret.sid].position = Pos(0, 0, 0)

\* every token _normalize_direction accepts, as the tokens are written
C11_Tokens ==
    {"north", "south", "east", "west", "up", "down",
     "n", "s", "e", "w", "u", "d",
     "forward", "ahead", "back", "backward", "reverse", "left", "right",
     " North "}

\* the compass as the claim gives it: the next, the opposite and the
\* previous direction of each heading
C11_Turned(h, how) ==
    CASE how = "next" ->
            (CASE h = "north" -> "east" [] h = "east" -> "south"
               [] h = "south" -> "west" [] h = "west" -> "north")
      [] how = "opposite" ->
            (CASE h = "north" -> "south" [] h = "east" -> "west"
               [] h = "south" -> "north" [] h = "west" -> "east")
      [] how = "previous" ->
            (CASE h = "north" -> "west" [] h = "east" -> "north"
               [] h = "south" -> "east" [] h = "west" -> "south")

\* the direction moved and the heading afterwards, as the claim gives them
C11_Expected(token, h) ==
    CASE token \in {"north", "n", " North "} -> [dir |-> "north", heading |-> "north"]
      [] token \in {"south", "s"} -> [dir |-> "south", heading |-> "south"]
      [] token \in {"east", "e"} -> [dir |-> "east", heading |-> "east"]
      [] token \in {"west", "w"} -> [dir |-> "west", heading |-> "west"]
      [] token \in {"up", "u"} -> [dir |-> "up", heading |-> h]
      [] token \in {"down", "d"} -> [dir |-> "down", heading |-> h]
      [] token \in {"forward", "ahead"} -> [dir |-> h, heading |-> h]
      [] token = "right" ->
            [dir |-> C11_Turned(h, "next"), heading |-> C11_Turned(h, "next")]
      [] token \in {"back", "backward", "reverse"} ->
            [dir |-> C11_Turned(h, "opposite"),
             heading |-> C11_Turned(h, "opposite")]
      [] token = "left" ->
            [dir |-> C11_Turned(h, "previous"),
             heading |-> C11_Turned(h, "previous")]

\* C11: every session heads one of the four cardinal directions; from every
\* reachable heading every accepted token resolves to the direction and the
\* new heading the compass rule gives; and a move that succeeded recorded
\* that direction and left the session with that heading.
C11_DirectionResolution ==
    /\ \A sid \in DOMAIN SESSIONS :
          /\ SESSIONS[sid].heading \in {"north", "east", "south", "west"}
          /\ \A token \in C11_Tokens :
                LET got == NormalizeDirection(token, SESSIONS[sid].heading)
                    want == C11_Expected(token, SESSIONS[sid].heading)
                IN  /\ got.ok
                    /\ got.abs_dir = want.dir
                    /\ got.heading = want.heading
    /\ (ret.op = "move" /\ ret.ok) =>
          LET s == SESSIONS[ret.sid]
              want == C11_Expected(ret.arg, pre.session.heading)
          IN  /\ s.heading = want.heading
              /\ s.events[Len(s.events)].payload.dir = want.dir
              /\ s.events[Len(s.events)].payload.heading = want.heading

\* "left" has just been moved by a session heading south
C11_Witness ==
    /\ ret.op = "move"
    /\ ret.ok
    /\ ret.arg = "left"
    /\ pre.session.heading = "south"
    /\ SESSIONS[ret.sid].heading = "east"

\* the tokens of the model's callers that _normalize_direction does not
\* accept
C12_Unrecognised == {"jump", ""}

\* C12: a move on an existing session with a token that is no direction,
\* alias or relative form (the empty token included) raises the
\* unknown-direction error and leaves the sessions and the event-id
\* counter as they were.
C12_UnknownTokenRejected ==
    [][(/\ ret'.op = "move"
        /\ ret'.sid \in DOMAIN SESSIONS
        /\ ret'.arg \in C12_Unrecognised) =>
          /\ ~ret'.ok
          /\ ret'.err = "ValueError"
          /\ ret'.msg = "Unknown direction"
          /\ SESSIONS' = SESSIONS
          /\ NEXT_EVENT_ID' = NEXT_EVENT_ID
          /\ issued' = issued]_vars

\* the empty token has just been rejected on a session that has moved
C12_Witness ==
    /\ ret.op = "move"
    /\ ~ret.ok
    /\ ret.arg = ""
    /\ ret.msg = "Unknown direction"
    /\ pre.known
    /\ pre.session.turn > 0

C13_Addressed ==
    {"move", "look", "spawn_npc", "get_npc", "log_narrative", "journal"}

\* C13: a session-addressed call whose session id resolves to no stored
\* session (an unknown explicit id, or no id and no active session) raises
\* the no-session error and changes no session, nor the event-id counter,
\* the active pointer or the lock table.
C13_UnknownSessionRejected ==
    [][(/\ ret'.op \in C13_Addressed
        /\ (ret'.sid = NoSid \/ ret'.sid \notin DOMAIN SESSIONS)) =>
          /\ ~ret'.ok
          /\ ret'.err = "ValueError"
          /\ ret'.msg = NoSession
          /\ SESSIONS' = SESSIONS
          /\ NEXT_EVENT_ID' = NEXT_EVENT_ID
          /\ ACTIVE_SESSION_ID' = ACTIVE_SESSION_ID
          /\ SESSION_LOCKS' = SESSION_LOCKS]_vars

\* spawn_npc has just been rejected for an id that was never issued, while
\* another session is active
C13_Witness ==
    /\ ret.op = "spawn_npc"
    /\ ~ret.ok
    /\ ret.sid = UnknownSid
    /\ ret.msg = NoSession
    /\ ACTIVE_SESSION_ID \in DOMAIN SESSIONS

\* C14: look leaves the sessions and the event-id counter as they were and
\* returns the turn, position, heading, tile, exits and salient facts of
\* the session as it is.
C14_LookChangesNothing ==
    [][(ret'.op = "look" /\ ret'.ok) =>
          /\ SESSIONS' = SESSIONS
          /\ NEXT_EVENT_ID' = NEXT_EVENT_ID
          /\ issued' = issued
          /\ ACTIVE_SESSION_ID' = ACTIVE_SESSION_ID
          /\ LET s == SESSIONS[ret'.sid]
                 key == <<s.position.x, s.position.y, s.position.z>>
                 v == ret'.value
             IN  /\ key \in DOMAIN s.tiles
                 /\ v.turn = s.turn
                 /\ v.position = s.position
                 /\ v.heading = s.heading
                 /\ v.session_id = ret'.sid
                 /\ v.tile = s.tiles[key].tile
                 /\ v.exits = s.tiles[key].tile.exits
                 /\ v.salient_facts = s.tiles[key].salient_facts]_vars

\* a session that has moved and holds an NPC has just been looked at by
\* its explicit id
C14_Witness ==
    /\ ret.op = "look"
    /\ ret.ok
    /\ SESSIONS[ret.sid].turn = 1
    /\ DOMAIN SESSIONS[ret.sid].npcs # {}
    /\ Len(SESSIONS[ret.sid].events) = 3

\* the call that has just returned added an entry to the journal of sid:
\* a narrative was logged, or a move reached a multiple of eight turns
C15_Journalled(sid) ==
    /\ ret'.sid = sid
    /\ ret'.ok
    /\ \/ ret'.op = "log_narrative"
       \/ ret'.op = "move" /\ SESSIONS'[sid].turn % 8 = 0

\* C15: a journal never holds more than 32 entries; a call that adds an
\* entry leaves the journal as the old one with the new entry at the end,
\* less the oldest entries beyond 32, the others in their order; every
\* other call leaves the journal as it was.
C15_JournalBounded ==
    [][\A sid \in DOMAIN SESSIONS :
          LET old == SESSIONS[sid].journal
              new == SESSIONS'[sid].journal
              dropped == Len(old) + 1 - Len(new)
          IN  /\ Len(old) <= 32
              /\ Len(new) <= 32
              /\ IF C15_Journalled(sid)
                 THEN /\ Len(new) = IF Len(old) < 32 THEN Len(old) + 1 ELSE 32
                      /\ \A i \in 1..(Len(new) - 1) : new[i] = old[i + dropped]
                      /\ new[Len(new)].turn = SESSIONS'[sid].turn
                      /\ new[Len(new)].kind =
                            IF ret'.op = "move" THEN "rollup" ELSE "narrative"
                 ELSE new = old]_vars

\* the rollup of the eighth turn has just been added to a journal that
\* was full, and the entry that was the oldest is gone
C15_Witness ==
    /\ ret.op = "move"
    /\ ret.ok
    /\ Len(pre.session.journal) = 32
    /\ Len(SESSIONS[ret.sid].journal) = 32
    /\ SESSIONS[ret.sid].journal[32].kind = "rollup"
    /\ SESSIONS[ret.sid].journal[1] = pre.session.journal[2]
    /\ SESSIONS[ret.sid].journal[1] # pre.session.journal[1]

\* C16: an event log never holds more than 5000 events between calls; a
\* call that appends an event leaves the log as the old one with the new
\* event at the end, and, when that makes more than 5000, as the last 4000
\* of these in their order, the new event among them; a call that appends
\* no event leaves the log as it was.
C16_EventLogBounded ==
    [][\A sid \in DOMAIN SESSIONS :
          LET old == SESSIONS[sid].events
              new == SESSIONS'[sid].events
          IN  /\ Len(old) <= 5000
              /\ Len(new) <= 5000
              /\ IF NEXT_EVENT_ID' # NEXT_EVENT_ID /\ ret'.sid = sid
                 THEN /\ Len(new) > 0
                      /\ new[Len(new)].event_id = NEXT_EVENT_ID
                      /\ IF Len(old) + 1 > 5000
                         THEN /\ Len(new) = 4000
                              /\ \A i \in 1..3999 :
                                    new[i] = old[i + Len(old) - 3999]
                         ELSE /\ Len(new) = Len(old) + 1
                              /\ SubSeq(new, 1, Len(old)) = old
                 ELSE new = old]_vars

\* an append to a log of 5000 events has just left the last 4000
C16_Witness ==
    /\ ret.op \in {"log_narrative", "move", "spawn_npc"}
    /\ pre.known
    /\ Len(pre.session.events) = 5000
    /\ Len(SESSIONS[ret.sid].events) = 4000
    /\ SESSIONS[ret.sid].events[4000].event_id = NEXT_EVENT_ID - 1
    /\ SESSIONS[ret.sid].events[1] = pre.session.events[1002]

\* the ids of the entries of an entity list
C17_Listed(entities) == {entities[i].id : i \in 1..Len(entities)}

\* C17: every NPC of a registry has an armor class from 10 to 15, is stored
\* under its own id, and is listed by id on the cached tile of the position
\* it was spawned at; spawn_npc returns the record it stored, positioned
\* where the session stood; and look lists every NPC spawned on the tile it
\* shows.
C17_SpawnedNpcListed ==
    /\ \A sid \in DOMAIN SESSIONS :
          \A id \in DOMAIN SESSIONS[sid].npcs :
              LET npc == SESSIONS[sid].npcs[id]
                  key == _coord_key(npc.position.x, npc.position.y,
                                    npc.position.z)
              IN  /\ npc.id = id
                  /\ npc.armor_class \in 10..15
                  /\ key \in DOMAIN SESSIONS[sid].tiles
                  /\ id \in C17_Listed(SESSIONS[sid].tiles[key].tile.entities)
    /\ (ret.op = "spawn_npc" /\ ret.ok) =>
          /\ ret.value.npc.armor_class \in 10..15
          /\ ret.value.npc.id \in DOMAIN SESSIONS[ret.sid].npcs
          /\ SESSIONS[ret.sid].npcs[ret.value.npc.id] = ret.value.npc
          /\ ret.value.npc.position = pre.session.position
    /\ (ret.op = "look" /\ ret.ok) =>
          \A id \in DOMAIN SESSIONS[ret.sid].npcs :
              SESSIONS[ret.sid].npcs[id].position = ret.value.position
                 => id \in C17_Listed(ret.value.tile.entities)

\* a look has just listed an NPC after the session spawned it, moved away
\* and moved back
C17_Witness ==
    /\ ret.op = "look"
    /\ ret.ok
    /\ LET s == SESSIONS[ret.sid]
           n == Len(s.events)
       IN  /\ n >= 3
           /\ s.events[n - 2].type = "spawn_npc"
           /\ s.events[n - 1].type = "move"
           /\ s.events[n].type = "move"
           /\ s.events[n - 2].payload.npc.position = s.position
           /\ s.events[n - 1].payload.to # s.position
           /\ s.events[n - 2].payload.npc.id
                 \in C17_Listed(ret.value.tile.entities)

\* the entity list of the tile a session stands on
C18_Here(session) ==
    session.tiles[_coord_key(session.position.x, session.position.y,
                             session.position.z)].tile.entities

\* C18: no entity list holds two entries with one id; a successful
\* spawn_npc leaves the list of the session's tile as the entries that do
\* not have the NPC's id, in their places and order, followed by one entry
\* for the NPC.
C18_NoDuplicateEntity ==
    [][/\ \A sid \in DOMAIN SESSIONS' :
             \A key \in DOMAIN SESSIONS'[sid].tiles :
                 LET entities == SESSIONS'[sid].tiles[key].tile.entities
                 IN  \A i, j \in 1..Len(entities) :
                        i # j => entities[i].id # entities[j].id
       /\ (ret'.op = "spawn_npc" /\ ret'.ok) =>
             LET old == C18_Here(SESSIONS[ret'.sid])
                 new == C18_Here(SESSIONS'[ret'.sid])
                 npc == ret'.value.npc
                 others == SelectSeq(old, LAMBDA e : e.id # npc.id)
             IN  /\ Len(new) = Len(others) + 1
                 /\ SubSeq(new, 1, Len(others)) = others
                 /\ new[Len(new)].id = npc.id
                 /\ new[Len(new)].kind = npc.kind
                 /\ new[Len(new)].name = npc.name]_vars

\* spawn_npc has just replaced the entry of an NPC whose id it repeated, on
\* a tile that also holds a generated entity, which stayed in place
C18_Witness ==
    /\ ret.op = "spawn_npc"
    /\ ret.ok
    /\ ret.value.npc.id \in DOMAIN pre.session.npcs
    /\ ret.value.npc # pre.session.npcs[ret.value.npc.id]
    /\ Len(C18_Here(SESSIONS[ret.sid])) = Len(C18_Here(pre.session))
    /\ Len(C18_Here(SESSIONS[ret.sid])) >= 2
    /\ C18_Here(SESSIONS[ret.sid])[1] = C18_Here(pre.session)[1]
    /\ C18_Here(pre.session)[1].id.prefix # "npc"

\* C19: a registry entry, once stored, is there unchanged in every later
\* state; get_npc returns the stored record of an id the addressed session
\* holds and raises the unknown-id error for any other id.
C19_NpcRecordStable ==
    [][/\ \A sid \in DOMAIN SESSIONS :
             \A id \in DOMAIN SESSIONS[sid].npcs :
                 /\ sid \in DOMAIN SESSIONS'
                 /\ id \in DOMAIN SESSIONS'[sid].npcs
                 /\ SESSIONS'[sid].npcs[id] = SESSIONS[sid].npcs[id]
       /\ (ret'.op = "get_npc" /\ ret'.sid \in DOMAIN SESSIONS) =>
             IF ret'.arg \in DOMAIN SESSIONS[ret'.sid].npcs
             THEN /\ ret'.ok
                  /\ ret'.value.npc = SESSIONS[ret'.sid].npcs[ret'.arg]
             ELSE /\ ~ret'.ok
                  /\ ret'.err = "ValueError"
                  /\ ret'.msg = "Unknown npc_id"]_vars

\* C20: the active-session pointer is unset or names a session of the
\* store, whatever the interleaving of start_session, set_active_session,
\* end_session and reset_all.
C20_ActivePointerValid ==
    ACTIVE_SESSION_ID = NoSid \/ ACTIVE_SESSION_ID \in DOMAIN SESSIONS

\* the counters a snapshot shows of a session
C21_View(session) ==
    [turn |-> session.turn, position |-> session.position,
     heading |-> session.heading]

\* every tile cached in the session before is cached unchanged after
C21_TilesKept(before, after) ==
    \A k \in DOMAIN before.tiles :
        k \in DOMAIN after.tiles /\ after.tiles[k] = before.tiles[k]

C22_NoWaitAcrossSessions ==
    \A t \in Threads :
        pc[t] # "idle" =>
            \/ ENABLED HandlerStep(t)
            \/ /\ pc[t] = "acquire"
               /\ \E u \in Threads \ {t} :
                     /\ SESSION_LOCKS[loc[t].sid] = u
                     /\ loc[u].sid = loc[t].sid

\* two threads are inside the critical sections of two different sessions
C22_Witness ==
    \E t \in Threads, u \in Threads :
        /\ t # u
        /\ SESSION_LOCKS[1] = t
        /\ SESSION_LOCKS[2] = u
        /\ loc[t].sid = 1
        /\ loc[u].sid = 2

\* the locks thread t holds
C23_Held(t) == {sid \in DOMAIN SESSION_LOCKS : SESSION_LOCKS[sid] = t}

\* C23: a thread holds at most one lock, the lock of the session its call
\* is addressed to, and none before the acquisition or after its call has
\* returned or raised; while some call is in progress some thread can take
\* a step; and with a scheduler that runs every thread that can take a step
\* every call in progress completes.
C23_LocksReleasedAndCallsComplete ==
    /\ [](\A t \in Threads :
            /\ Cardinality(C23_Held(t)) <= 1
            /\ pc[t] \in {"idle", "resolve", "acquire"} => C23_Held(t) = {}
            /\ \A sid \in C23_Held(t) : loc[t].sid = sid)
    /\ []((\E t \in Threads : pc[t] # "idle") =>
            \E t \in Threads : ENABLED HandlerStep(t))
    /\ \A t \in Threads : (pc[t] # "idle") ~> (pc[t] = "idle")

\* a move has raised inside its critical section and released the lock a
\* second thread is waiting for
C23_Witness ==
    /\ ret.op = "move"
    /\ ~ret.ok
    /\ ret.msg = "Unknown direction"
    /\ SESSION_LOCKS[ret.sid] = 0
    /\ \E u \in Threads : pc[u] = "acquire" /\ loc[u].sid = ret.sid

\* C24: roll_with_advantage on a single M-sided die, written "dM" or "1dM",
\* returns two draws in 1..M and their maximum as the result; the critical
\* success flag is set exactly when M = 20 and the result is 20, the
\* critical fail flag exactly when M = 20 and the result is 1, which is
\* when both draws are 1.
C24_AdvantageIsMaximum ==
    (ret.op = "roll_with_advantage" /\ ret.ok) =>
        LET v == ret.value
            M == v.sides
        IN  /\ Strip(LowerChars(ret.arg)) \in {<<"d">> \o Format(M),
                                          <<"1", "d">> \o Format(M)}
            /\ Len(v.rolls) = 2
            /\ \A i \in 1..2 : v.rolls[i] \in 1..M
            /\ v.result \in {v.rolls[1], v.rolls[2]}
            /\ v.result >= v.rolls[1]
            /\ v.result >= v.rolls[2]
            /\ v.is_critical_success <=> (M = 20 /\ v.result = 20)
            /\ v.is_critical_fail <=> (M = 20 /\ v.result = 1)
            /\ v.is_critical_fail <=> (M = 20 /\ v.rolls = <<1, 1>>)
            /\ M # 20 => ~v.is_critical_success /\ ~v.is_critical_fail

\* a d20 rolled with advantage whose lower draw came first, and a d20 that
\* drew two ones
C24_Witness ==
    /\ ret.op = "roll_with_advantage"
    /\ ret.ok
    /\ ret.value.sides = 20
    /\ \/ ret.value.rolls = <<3, 20>> /\ ret.value.is_critical_success
       \/ ret.value.rolls = <<1, 1>> /\ ret.value.is_critical_fail

\* C25: an attack made while the combat of the session is not Active (none
\* generated yet, resolved, or ended) is rejected with InvalidState and
\* changes neither the session nor the combat state; an attack on an
\* Active combat is never rejected with InvalidState.
C25_AttackNeedsActiveCombat ==
    [][ret'.op = "attack" =>
          IF IsActive(ACTIVE_SESSION_ID)
          THEN ret'.ok \/ ret'.err # "InvalidState"
          ELSE /\ ~ret'.ok
               /\ ret'.err = "InvalidState"
               /\ COMBAT' = COMBAT
               /\ SESSIONS' = SESSIONS
               /\ NEXT_EVENT_ID' = NEXT_EVENT_ID]_vars

\* an attack was rejected on a combat that an earlier attack resolved
C25_Witness ==
    /\ ret.op = "attack"
    /\ ~ret.ok
    /\ ret.err = "InvalidState"
    /\ ret.sid \in DOMAIN COMBAT
    /\ ~COMBAT[ret.sid].active
    /\ Alive(COMBAT[ret.sid].enemies) = {}

\* C26: the damage of a critical hit, roll_damage with crit_multiplier 2,
\* is the damage dice rolled twice and summed: for the notation NdM, 2N
\* rolls in 1..M and their sum as the total.
C26_CriticalDamageRolledTwice ==
    (ret.op = "roll_damage" /\ ret.ok) =>
        (ret.value.crit_multiplier = 2 =>
            /\ Len(ret.value.rolls) = 2 * parse_dice_notation(ret.arg).count
            /\ \A i \in 1..Len(ret.value.rolls) :
                  ret.value.rolls[i] \in 1..parse_dice_notation(ret.arg).sides
            /\ ret.value.total = Sum(ret.value.rolls))

\* the hit rule of the modelled attack: a resolved attack kept one value r
\* of 1..20, the maximum of two draws with advantage, the minimum with
\* disadvantage, otherwise the single draw (the player's own roll when one
\* was handed in).  r = 20 is a critical hit whatever the armor class, with
\* the damage dice rolled twice and summed; r = 1 misses; any other r hits
\* exactly when r >= armor class; a hit that is not critical rolls the
\* damage dice once, a miss rolls none.
C26_HitRule ==
    (ret.op = "attack" /\ ret.ok) =>
        LET v == ret.value
            r == v.roll
            flag == ret.arg.flag
        IN  /\ r \in 1..20
            /\ \A i \in 1..Len(v.rolls) : v.rolls[i] \in 1..20
            /\ flag = "advantage" =>
                  /\ Len(v.rolls) = 2
                  /\ r \in {v.rolls[1], v.rolls[2]}
                  /\ r >= v.rolls[1] /\ r >= v.rolls[2]
            /\ flag = "disadvantage" =>
                  /\ Len(v.rolls) = 2
                  /\ r \in {v.rolls[1], v.rolls[2]}
                  /\ r <= v.rolls[1] /\ r <= v.rolls[2]
            /\ flag = "none" =>
                  /\ v.rolls = <<r>>
                  /\ ret.arg.player_roll # NoRoll => r = ret.arg.player_roll
            /\ v.critical <=> r = 20
            /\ r = 20 => v.hit
            /\ r = 1 => ~v.hit
            /\ r \notin {1, 20} => (v.hit <=> r >= v.armor_class)
            /\ Len(v.damage_rolls) = IF v.critical THEN 2 * v.count
                                     ELSE IF v.hit THEN v.count ELSE 0
            /\ \A i \in 1..Len(v.damage_rolls) : v.damage_rolls[i] \in 1..v.sides
            /\ v.damage = Sum(v.damage_rolls)

\* an attack whose roll equalled the armor class of its target
C26_Witness ==
    /\ ret.op = "attack"
    /\ ret.ok
    /\ ret.value.roll = ret.value.armor_class
    /\ ret.value.hit
    /\ ~ret.value.critical

\* C27: every enemy's HP is within 0..max_hp and an Active combat has an
\* enemy alive; a resolved attack targets the first enemy alive, lowers
\* that enemy's HP by the damage rolled, floored at zero, when it hits and
\* changes no HP when it misses, leaves every other enemy as it was, and
\* leaves the combat Active exactly when an enemy is still alive.
C27_HpBookkeeping ==
    /\ [](\A sid \in DOMAIN COMBAT :
            /\ \A i \in 1..Len(COMBAT[sid].enemies) :
                  /\ COMBAT[sid].enemies[i].hp >= 0
                  /\ COMBAT[sid].enemies[i].hp <= COMBAT[sid].enemies[i].max_hp
            /\ COMBAT[sid].active => Alive(COMBAT[sid].enemies) # {})
    /\ [][(ret'.op = "attack" /\ ret'.ok) =>
            LET sid == ret'.sid
                before == COMBAT[sid].enemies
                after == COMBAT'[sid].enemies
                target == ret'.value.target
                lost == IF ret'.value.hit THEN ret'.value.damage ELSE 0
            IN  /\ COMBAT[sid].active
                /\ target \in Alive(before)
                /\ \A j \in Alive(before) : target <= j
                /\ Len(after) = Len(before)
                /\ \A j \in 1..Len(before) : j # target => after[j] = before[j]
                /\ after[target].hp =
                      IF before[target].hp > lost
                      THEN before[target].hp - lost ELSE 0
                /\ after[target] = [before[target] EXCEPT !.hp = after[target].hp]
                /\ ret'.value.hit => lost >= 1
                /\ COMBAT'[sid].active <=> (\E j \in 1..Len(after) : after[j].hp > 0)
                /\ COMBAT'[sid].round = COMBAT[sid].round]_vars

\* the second of two enemies was brought to zero HP by a hit that exceeded
\* the HP it had left, and the combat is no longer Active
C27_Witness ==
    /\ ret.op = "attack"
    /\ ret.ok
    /\ ret.value.hit
    /\ ret.value.target = 2
    /\ ret.value.damage > EnemyHp
    /\ Len(COMBAT[ret.sid].enemies) = 2
    /\ \A i \in 1..2 : COMBAT[ret.sid].enemies[i].hp = 0
    /\ ~COMBAT[ret.sid].active

\* C28: combat_end leaves the session Idle whatever the HP of the enemies;
\* a session that is not Active stays so under every operation but
\* generate_encounter, its combat_status reports no active combat and its
\* attack is rejected; generate_encounter installs an Active combat at
\* round 1 with at least one enemy, each at full positive HP.
C28_EndedUntilNextEncounter ==
    [][LET sid == ACTIVE_SESSION_ID
       IN  /\ ret'.op = "combat_end" => sid \notin DOMAIN COMBAT'
           /\ (~IsActive(sid) /\ ret'.op # "generate_encounter") =>
                 ~(sid \in DOMAIN COMBAT' /\ COMBAT'[sid].active)
           /\ (~IsActive(sid) /\ ret'.op = "combat_status") =>
                 ret'.value = NoActiveCombat
           /\ (~IsActive(sid) /\ ret'.op = "attack") => ~ret'.ok
           /\ (IsActive(sid) /\ ret'.op = "combat_status") =>
                 /\ ret'.value.active
                 /\ ret'.value = COMBAT'[sid]
           /\ ret'.op = "generate_encounter" =>
                 /\ sid \in DOMAIN COMBAT'
                 /\ COMBAT'[sid].active
                 /\ COMBAT'[sid].round = 1
                 /\ Len(COMBAT'[sid].enemies) >= 1
                 /\ \A i \in 1..Len(COMBAT'[sid].enemies) :
                       /\ COMBAT'[sid].enemies[i].hp > 0
                       /\ COMBAT'[sid].enemies[i].hp
                             = COMBAT'[sid].enemies[i].max_hp
                 /\ ret'.value.combat = COMBAT'[sid]]_vars

\* a status query after an encounter was ended before any attack was
\* rolled, the enemies at full HP
C28_Witness ==
    /\ ret.op = "combat_status"
    /\ ret.value = NoActiveCombat
    /\ Len(issued) = 2
    /\ calls = 0
    /\ ret.sid \notin DOMAIN COMBAT

\* C29: a call of move, look, log_narrative, journal, spawn_npc or get_npc
\* addressed to a session, by its id or as the active session, leaves every
\* other session of the store exactly as it was: position, heading, turn,
\* tile cache, event log, journal and NPC registry.
C29_OtherSessionsUntouched ==
    [][ret'.op \in {"move", "look", "log_narrative", "journal", "spawn_npc",
                    "get_npc"} =>
          /\ DOMAIN SESSIONS' = DOMAIN SESSIONS
          /\ \A B \in DOMAIN SESSIONS :
                B # ret'.sid => SESSIONS'[B] = SESSIONS[B]]_vars

\* a move addressed by id to the session that is not the active one has
\* succeeded, with two sessions in the store
C29_Witness ==
    /\ ret.op = "move"
    /\ ret.ok
    /\ Cardinality(DOMAIN SESSIONS) = 2
    /\ ret.sid # ACTIVE_SESSION_ID
    /\ SESSIONS[ret.sid].turn = 1
    /\ SESSIONS[ACTIVE_SESSION_ID].turn = 0

\* the "move" events in the log of a session
C30_Moves(session) ==
    {i \in 1..Len(session.events) : session.events[i].type = "move"}

\* C30: the turn counter of every session equals the number of moves its
\* log records; a session starts at turn 0, a successful move raises the
\* turn of the session it is addressed to by exactly 1, and no other call,
\* failed moves included, changes the turn of any session.
C30_TurnCountsMoves ==
    /\ [](\A sid \in DOMAIN SESSIONS :
            SESSIONS[sid].turn = Cardinality(C30_Moves(SESSIONS[sid])))
    /\ [][/\ \A sid \in DOMAIN SESSIONS' \ DOMAIN SESSIONS :
                SESSIONS'[sid].turn = 0
          /\ \A sid \in DOMAIN SESSIONS :
                /\ sid \in DOMAIN SESSIONS'
                /\ SESSIONS'[sid].turn =
                      IF ret'.op = "move" /\ ret'.ok /\ ret'.sid = sid
                      THEN SESSIONS[sid].turn + 1
                      ELSE SESSIONS[sid].turn
                /\ SESSIONS'[sid].turn >= SESSIONS[sid].turn]_vars

\* the second move of a session has succeeded
C30_Witness ==
    /\ ret.op = "move"
    /\ ret.ok
    /\ SESSIONS[ret.sid].turn = 2
    /\ ret.value.snapshot.turn = 2

\* C31: a successful move that brings the turn counter of its session to a
\* multiple of 8 adds one entry at the end of the journal, naming that
\* turn, the coordinate after the move and the first three salient facts of
\* the destination tile (all of them when there are fewer); a successful
\* move to any other turn leaves the journal as it was, and no other call
\* adds a rollup entry.
C31_RollupEveryEighthTurn ==
    [][\A sid \in DOMAIN SESSIONS :
          LET old == SESSIONS[sid].journal
              new == SESSIONS'[sid].journal
              turn == SESSIONS'[sid].turn
              pos == SESSIONS'[sid].position
          IN  IF ret'.op = "move" /\ ret'.ok /\ ret'.sid = sid
              THEN IF turn > 0 /\ turn % 8 = 0
                   THEN LET entry == new[Len(new)]
                            facts == ret'.value.snapshot.salient_facts
                        IN  /\ Len(new) >= 1
                            /\ \A i \in 1..(Len(new) - 1) :
                                  new[i] = old[i + Len(old) + 1 - Len(new)]
                            /\ entry.kind = "rollup"
                            /\ entry.turn = turn
                            /\ entry.at = _coord_key(pos.x, pos.y, pos.z)
                            /\ pos = ret'.value.snapshot.position
                            /\ Len(entry.facts) =
                                  IF Len(facts) < 3 THEN Len(facts) ELSE 3
                            /\ \A i \in 1..Len(entry.facts) :
                                  entry.facts[i] = facts[i]
                   ELSE new = old
              ELSE new = old \/ new[Len(new)].kind # "rollup"]_vars

\* the move to turn 8 has added its rollup entry with three salient facts
\* of the tile the session has reached
C31_Witness ==
    /\ ret.op = "move"
    /\ ret.ok
    /\ SESSIONS[ret.sid].turn = 8
    /\ LET journal == SESSIONS[ret.sid].journal
       IN  /\ journal[Len(journal)].kind = "rollup"
           /\ journal[Len(journal)].turn = 8
           /\ Len(journal[Len(journal)].facts) = 3
           /\ journal[Len(journal)].at
                 = _coord_key(ret.value.snapshot.position.x,
                              ret.value.snapshot.position.y,
                              ret.value.snapshot.position.z)

\* the lines of a text that are not blank
C32_NonBlank(text) ==
    IF text.none THEN {} ELSE {i \in 1..Len(text.lines) : ~text.lines[i].ws}

\* C32: log_narrative with a positive event id on an existing session
\* returns its acknowledgement for every text: one "narrative" event with
\* the event id and the text is added to the log, one journal entry made of
\* the first non-blank line cut to 120 characters when the text has such a
\* line and none otherwise, and position, heading and turn stay as they
\* were.
C32_NarrativeAlwaysAcknowledged ==
    [][(/\ ret'.op = "log_narrative"
        /\ (ret'.ok \/ ret'.msg \notin
                          {NoSession, "event_id must be a positive integer"})) =>
          LET old == SESSIONS[ret'.sid]
              new == SESSIONS'[ret'.sid]
              event == new.events[Len(new.events)]
              text == event.payload.text
          IN  /\ ret'.ok
              /\ ret'.value.ok
              /\ new.events = Append(old.events, event)
              /\ event.type = "narrative"
              /\ event.payload.event_id > 0
              /\ event.event_id = ret'.value.logged_event_id
              /\ IF C32_NonBlank(text) = {}
                 THEN new.journal = old.journal
                 ELSE LET first == CHOOSE i \in C32_NonBlank(text) :
                                      \A j \in C32_NonBlank(text) : i <= j
                          line == text.lines[first]
                      IN  new.journal = Append(old.journal,
                              [kind |-> "narrative", turn |-> old.turn,
                               snippet |-> [line EXCEPT !.len =
                                              IF @ > 120 THEN 120 ELSE @]])
              /\ new.position = old.position
              /\ new.heading = old.heading
              /\ new.turn = old.turn]_vars

C33_DigitChars == {"0", "1", "2", "3", "4", "5", "6", "7", "8", "9"}

\* the value of the decimal numeral s[lo..hi]
RECURSIVE C33_Value(_, _, _)
C33_Value(s, lo, hi) ==
    IF lo > hi THEN 0
    ELSE 10 * C33_Value(s, lo, hi - 1)
           + (CHOOSE v \in 0..9 : Digits[v + 1] = s[hi])

\* the readings of a notation as NdM: blanks, then the digits of a positive
\* N or nothing at all (N = 1), then "d" or "D", then the digits of a
\* positive M, then blanks
C33_Readings(s) ==
    {p \in (1..Len(s)) \X (1..Len(s)) \X (1..Len(s)) :
        LET lo == p[1]
            d == p[2]
            hi == p[3]
        IN  /\ lo <= d /\ d < hi
            /\ \A i \in 1..Len(s) : (i < lo \/ i > hi) => s[i] = " "
            /\ s[d] \in {"d", "D"}
            /\ \A i \in lo..(d - 1) : s[i] \in C33_DigitChars
            /\ \A i \in (d + 1)..hi : s[i] \in C33_DigitChars
            /\ lo < d => C33_Value(s, lo, d - 1) > 0
            /\ C33_Value(s, d + 1, hi) > 0}

\* C33: roll_dice, through parse_dice_notation, accepts exactly the
\* notations that read, once trimmed and in lower case, as NdM with N and M
\* positive decimal integers or as dM, which means N = 1, and fails with an
\* error for every other one; on an accepted notation it returns N rolls,
\* each in 1..M, and their sum as the total.
C33_NotationAndRoll ==
    ret.op = "roll_dice" =>
        /\ ret.ok <=> C33_Readings(ret.arg) # {}
        /\ ~ret.ok => ret.err = "ValueError"
        /\ ret.ok =>
              \A p \in C33_Readings(ret.arg) :
                 LET N == IF p[1] = p[2] THEN 1
                          ELSE C33_Value(ret.arg, p[1], p[2] - 1)
                     M == C33_Value(ret.arg, p[2] + 1, p[3])
                 IN  /\ ret.value.count = N
                     /\ ret.value.sides = M
                     /\ Len(ret.value.rolls) = N
                     /\ \A i \in 1..N : ret.value.rolls[i] \in 1..M
                     /\ ret.value.total = Sum(ret.value.rolls)
                     /\ parse_dice_notation(ret.arg).count = N
                     /\ parse_dice_notation(ret.arg).sides = M

\* two six-sided dice were rolled and summed
C33_Witness ==
    /\ ret.op = "roll_dice"
    /\ ret.ok
    /\ ret.arg = <<"2", "d", "6">>
    /\ ret.value.rolls = <<3, 5>>
    /\ ret.value.total = 8

\* the readings of a notation as one die: dM or 1dM
C34_SingleDieReadings(s) ==
    {p \in C33_Readings(s) :
        p[1] = p[2] \/ C33_Value(s, p[1], p[2] - 1) = 1}

\* C34: roll_with_disadvantage accepts the notations dM and 1dM and fails
\* for every other one, a dice count other than 1 included; on an accepted
\* one it draws two values in 1..M and returns the lower, with
\* is_critical_success exactly when M = 20 and both draws are 20 and
\* is_critical_fail exactly when M = 20 and the result is 1.
C34_DisadvantageIsMinimum ==
    ret.op = "roll_with_disadvantage" =>
        /\ ret.ok <=> C34_SingleDieReadings(ret.arg) # {}
        /\ ~ret.ok => ret.err = "ValueError"
        /\ ret.ok =>
              \A p \in C34_SingleDieReadings(ret.arg) :
                 LET M == C33_Value(ret.arg, p[2] + 1, p[3])
                     v == ret.value
                 IN  /\ v.sides = M
                     /\ Len(v.rolls) = 2
                     /\ v.rolls[1] \in 1..M
                     /\ v.rolls[2] \in 1..M
                     /\ v.result \in {v.rolls[1], v.rolls[2]}
                     /\ v.result <= v.rolls[1]
                     /\ v.result <= v.rolls[2]
                     /\ v.is_critical_success
                           <=> (M = 20 /\ v.rolls[1] = 20 /\ v.rolls[2] = 20)
                     /\ v.is_critical_fail <=> (M = 20 /\ v.result = 1)

\* a d20 rolled 17 and 4 with disadvantage and kept the 4
C34_Witness ==
    /\ ret.op = "roll_with_disadvantage"
    /\ ret.ok
    /\ ret.arg = <<"d", "2", "0">>
    /\ ret.value.rolls = <<17, 4>>
    /\ ret.value.result = 4
    /\ ~ret.value.is_critical_fail

\* a notation of two dice was refused by roll_with_disadvantage
C34_RefusedWitness ==
    /\ ret.op = "roll_with_disadvantage"
    /\ ~ret.ok
    /\ ret.arg = <<"2", "d", "6">>

-----------------------------------------------------------------------------
(* The command loop of loop.py: one action per command line, each the      *)
(* command's handler with the tool call it makes.  The loop keeps          *)
(* last_d20_roll between commands; the narration that follows              *)
(* ":generate encounter" logs its text before the next command is read.    *)

loopOnly == <<SESSIONS, ACTIVE_SESSION_ID, SESSION_LOCKS, NEXT_EVENT_ID,
              uuids, pre, issued, known, calls, pc, loc, clock, globalRng,
              genLog, dice, COMBAT>>

\* the notations typed after "!roll" and "!roll-a"
LoopNotations == {<<"d", "2", "0">>, <<"d", "2">>, <<"d", "x">>}

LoopAdvantageNotations == {<<"d", "2">>}

\* the flags typed after ":attack"
LoopFlags == {"none", "advantage"}

\* the text the language model narrates the encounter with
LoopTexts ==
    {Text(<<TextLine("", 0, TRUE), TextLine("A door creaks.", 14, FALSE),
            TextLine("Dust falls.", 11, FALSE)>>)}

\* ":generate encounter" has called the tool and its narration is pending
Narrating == ret.op = "generate_encounter"

\* variant of the roll tracking that forgets the roll when roll_dice fails
TrackedRollClearedOnError(parsed, total) ==
    IF parsed.ok /\ parsed.count = 1 /\ parsed.sides = 20 THEN total
    ELSE NoRoll

\* "Track last d20 for combat hit checks": the value of last_d20_roll after
\* "!roll", roll_dice having parsed the notation and summed to total
TrackedRoll(parsed, total) ==
    IF ~parsed.ok THEN last_d20_roll
    ELSE IF parsed.count = 1 /\ parsed.sides = 20 THEN total
    ELSE NoRoll

\* ":roll <notation>" and "!roll <notation>"
LoopRoll(notation) ==
    /\ ~Narrating
    /\ LET parsed == parse_dice_notation(notation)
       IN  IF ~parsed.ok
           THEN /\ ret' = Raised("roll_dice", NoSid, notation, "ValueError",
                                 parsed.msg)
                /\ last_d20_roll' = TrackedRoll(parsed, 0)
           ELSE \E rolls \in [1..parsed.count -> 1..parsed.sides] :
                   LET result == RollResult(parsed.count, parsed.sides, rolls)
                   IN  /\ ret' = Returned("roll_dice", NoSid, notation, result)
                       /\ last_d20_roll' = TrackedRoll(parsed, result.total)
    /\ UNCHANGED loopOnly

\* "!roll-a <notation>": the advantage roll is not tracked
LoopRollAdvantage(notation) ==
    /\ ~Narrating
    /\ LET die == SingleDie(notation, "Use dM format, e.g., 'd20'",
                    "Use dM format with digits after 'd', e.g., 'd20'",
                    "Advantage uses a single die: use 'd20', not '2d20'")
       IN  IF ~die.ok
           THEN ret' = Raised("roll_with_advantage", NoSid, notation,
                              "ValueError", die.msg)
           ELSE \E first \in 1..die.sides, second \in 1..die.sides :
                   ret' = Returned("roll_with_advantage", NoSid, notation,
                                   TwoRollResult(die.sides, first, second,
                                                 Max(first, second)))
    /\ UNCHANGED last_d20_roll
    /\ UNCHANGED loopOnly

\* the player_roll that ":attack" hands to the attack tool
UsePlayerRoll(flag) ==
    IF flag = "none" /\ last_d20_roll # NoRoll THEN last_d20_roll
    ELSE NoRoll

\* ":attack <weapon> <damage> [adv|dis]"
LoopAttack(damage, flag) ==
    /\ ~Narrating
    /\ attack("attack", damage, flag, UsePlayerRoll(flag))

\* ":generate encounter", up to the tool's return
LoopGenerateEncounter ==
    /\ ~Narrating
    /\ Len(issued) + 1 < MaxEventId
    /\ generate_encounter(None, None)

\* _narrate_from_tile after ":generate encounter": the text of the language
\* model is logged against the event of the encounter
LoopNarrate ==
    /\ Narrating
    /\ \E text \in LoopTexts :
          LogNarrative(text, ret.value.event_id, NoSid)

\* ":combat status"
LoopCombatStatus == ~Narrating /\ combat_status

\* ":combat end"
LoopCombatEnd == ~Narrating /\ combat_end

\* ":journal"
LoopJournal == ~Narrating /\ Journal(NoSid)

\* a session started by _ensure_session, one attack short of the bound
InitLoop ==
    /\ SESSIONS = (1 :> StartedSession(1, 1))
    /\ ACTIVE_SESSION_ID = 1
    /\ SESSION_LOCKS = (1 :> 0)
    /\ NEXT_EVENT_ID = 2
    /\ uuids = 1
    /\ ret = Returned("init", NoSid, None, None)
    /\ pre = NoBefore
    /\ issued = <<1>>
    /\ known = {1}
    /\ calls = MaxAttacks - 1
    /\ pc = [t \in Threads |-> "idle"]
    /\ loc = [t \in Threads |-> IdleLoc]
    /\ clock = 0
    /\ globalRng = [state |-> 0, draws |-> 0]
    /\ genLog = <<>>
    /\ dice = <<>>
    /\ COMBAT = <<>>
    /\ last_d20_roll = NoRoll

LoopNext ==
    \/ \E notation \in LoopNotations : LoopRoll(notation)
    \/ \E notation \in LoopAdvantageNotations : LoopRollAdvantage(notation)
    \/ \E flag \in LoopFlags : LoopAttack(<<"d", "2">>, flag)
    \/ LoopGenerateEncounter
    \/ LoopNarrate
    \/ LoopCombatStatus
    \/ LoopCombatEnd
    \/ LoopJournal

SpecLoop == InitLoop /\ [][LoopNext]_vars

\* the previous command was a roll of a single d20
C35_JustRolledD20 ==
    /\ ret.op = "roll_dice"
    /\ ret.ok
    /\ ret.value.count = 1
    /\ ret.value.sides = 20

\* C35: in the command loop a plain attack hands a d20 value r to the tool
\* as player_roll only if the command just before it was a roll of a single
\* d20 that produced r; after anything else (no roll, another command in
\* between, a roll of other dice, or with advantage or disadvantage) the
\* attack goes without player_roll.
C35_ReusesOnlyTheRollJustBefore ==
    [][ret'.op = "attack" =>
          IF ret'.arg.flag = "none" /\ C35_JustRolledD20
          THEN ret'.arg.player_roll = ret.value.total
          ELSE ret'.arg.player_roll = NoRoll]_vars

-----------------------------------------------------------------------------
(* The three-pane interface of ui/tui.py: the commands run on the main     *)
(* thread, and after a move a daemon thread asks the language model for    *)
(* the narrative and logs it with GameClient.log(text, event_id), which    *)
(* passes no session id.  A narration is pending for every move event      *)
(* that no narrative event refers to yet.                                  *)

MaxTuiEvents == 4    \* events issued, the narrations included

TuiDirections == {"north", "east", "up", "back"}

\* some narrative event refers to the event e
Narrated(e) ==
    \E sid \in DOMAIN SESSIONS :
       \E i \in 1..Len(SESSIONS[sid].events) :
          /\ SESSIONS[sid].events[i].type = "narrative"
          /\ SESSIONS[sid].events[i].payload.event_id = e

\* the narration threads still running: <<session of the move, event id>>
PendingNarrations ==
    {p \in (DOMAIN SESSIONS) \X (1..MaxTuiEvents) :
        /\ \E i \in 1..Len(SESSIONS[p[1]].events) :
              /\ SESSIONS[p[1]].events[i].event_id = p[2]
              /\ SESSIONS[p[1]].events[i].type = "move"
        /\ ~Narrated(p[2])}

\* ":start"
TuiStart == StartSession(None, None, 80)

\* ":move <dir>", which starts the narration thread
TuiMove(direction) == Move(direction, NoSid)

\* ":look"; its narration thread has no event to log against
TuiLook == Look(NoSid)

\* ":use <session_id>"
TuiUse(session_id) == SetActiveSession(session_id)

\* the end of a narration thread: self.client.log(text, event_id), that is
\* log_narrative(text, event_id, session_id=None)
TuiNarrate ==
    /\ Len(issued) < MaxTuiEvents
    /\ \E p \in PendingNarrations, text \in LoopTexts :
          LET event_id == p[2]
              sid == ResolveSid(NoSid)
              session == SESSIONS[sid]
              logged == AppendEventTo(session, NEXT_EVENT_ID, "narrative",
                            [event_id |-> event_id, text |-> text])
          IN  /\ KnownSid(sid)
              /\ event_id > 0
              /\ pre' = Before(session)
              /\ SESSION_LOCKS' = SetDefault(SESSION_LOCKS, sid, 0)
              /\ NEXT_EVENT_ID' = NEXT_EVENT_ID + 1
              /\ issued' = Append(issued, NEXT_EVENT_ID)
              /\ IF StrippedLines(text) = <<>>
                 THEN /\ SESSIONS' = [SESSIONS EXCEPT ![sid] = logged]
                      /\ ret' = Raised("log_narrative", sid, None,
                                       "IndexError",
                                       "list index out of range")
                 ELSE /\ SESSIONS' = [SESSIONS EXCEPT
                                        ![sid] = LogJournal(logged, text)]
                      /\ ret' = Returned("log_narrative", sid, None,
                                    [ok |-> TRUE,
                                     logged_event_id |-> NEXT_EVENT_ID])
    /\ UNCHANGED <<ACTIVE_SESSION_ID, uuids>>
    /\ UNCHANGED seqRead

TuiNext ==
    \/ TuiStart
    \/ \E direction \in TuiDirections : TuiMove(direction)
    \/ TuiLook
    \/ \E session_id \in known : TuiUse(session_id)
    \/ TuiNarrate

SpecTui == Init /\ [][TuiNext]_vars

\* C36: the narrative of an event is logged into the session in which the
\* event occurred: when the narration of a move in session A ends after the
\* active session has changed to B, the narrative event and the journal
\* line still go to A and nothing is added to B.
C36_NarrativeGoesToTheEventsSession ==
    [][ret'.op = "log_narrative" =>
          \A sid \in DOMAIN SESSIONS :
             SESSIONS'[sid] # SESSIONS[sid] =>
                LET events == SESSIONS'[sid].events
                    narrative == events[Len(events)]
                IN  /\ narrative.type = "narrative"
                    /\ \E i \in 1..Len(SESSIONS[sid].events) :
                          SESSIONS[sid].events[i].event_id
                             = narrative.payload.event_id]_vars

\* the narrative of a move was logged while the session of the move was
\* still the active one
C36_SameSessionWitness ==
    /\ ret.op = "log_narrative"
    /\ ret.ok
    /\ LET events == SESSIONS[ret.sid].events
       IN  /\ Len(events) >= 2
           /\ events[Len(events)].type = "narrative"
           /\ \E i \in 1..(Len(events) - 1) :
                 /\ events[i].type = "move"
                 /\ events[i].event_id = events[Len(events)].payload.event_id

\* the tile at the session's position is in the session's cache
C37_Cached(session) ==
    _coord_key(session.position.x, session.position.y, session.position.z)
        \in DOMAIN session.tiles

\* C37: in every state between calls the tile at each session's position
\* is in that session's tile cache (start_session caches the origin, a
\* successful move its destination), so look and spawn_npc add no tile to
\* a cache.
C37_TileAtPositionCached ==
    /\ [](\A sid \in DOMAIN SESSIONS : C37_Cached(SESSIONS[sid]))
    /\ [][ret'.op \in {"look", "spawn_npc"} =>
             \A sid \in DOMAIN SESSIONS :
                /\ sid \in DOMAIN SESSIONS'
                /\ DOMAIN SESSIONS'[sid].tiles = DOMAIN SESSIONS[sid].tiles]_vars

\* a look returned in a session that had moved to a second tile
C37_Witness ==
    /\ ret.op = "look"
    /\ ret.ok
    /\ SESSIONS[ret.sid].turn >= 1
    /\ SESSIONS[ret.sid].position # Pos(0, 0, 0)
    /\ Cardinality(DOMAIN SESSIONS[ret.sid].tiles) >= 2
    /\ C37_Cached(SESSIONS[ret.sid])

\* with the handlers interleaved statement by statement, the tile is
\* missing at most while a move of the session is between its position
\* write and its _ensure_tile
C37_CachedOutsideMove ==
    \A sid \in DOMAIN SESSIONS :
       (\A t \in Threads :
           ~(pc[t] \in {"m_heading", "m_turn", "m_tile"} /\ loc[t].sid = sid))
       => C37_Cached(SESSIONS[sid])

\* the handlers that act on one session
C38_SessionOps ==
    {"move", "look", "log_narrative", "journal", "spawn_npc", "get_npc"}

\* a call of look, journal or move that passes no session id
C38_CallWithoutSessionId ==
    \/ Look(NoSid)
    \/ Journal(NoSid)
    \/ \E direction \in MoveInputs : Move(direction, NoSid)

\* C38: start_session makes the session it creates the active one, and
\* calls that pass no session id act on the active session; the sessions
\* created earlier stay in the store unchanged, and can still be addressed
\* by their id or made active again with set_active_session.
C38_NewSessionBecomesActive ==
    [][/\ \A sid \in DOMAIN SESSIONS : sid \in DOMAIN SESSIONS'
       /\ ret'.op = "start_session" =>
             /\ ret'.ok
             /\ ret'.sid \notin DOMAIN SESSIONS
             /\ ret'.sid \in DOMAIN SESSIONS'
             /\ ACTIVE_SESSION_ID' = ret'.sid
             /\ \A sid \in DOMAIN SESSIONS : SESSIONS'[sid] = SESSIONS[sid]
       /\ C38_CallWithoutSessionId =>
             /\ ret'.sid = ACTIVE_SESSION_ID
             /\ ACTIVE_SESSION_ID' = ACTIVE_SESSION_ID
             /\ \A sid \in DOMAIN SESSIONS \ {ACTIVE_SESSION_ID} :
                   SESSIONS'[sid] = SESSIONS[sid]
       /\ (ret'.op \in C38_SessionOps /\ ret'.sid \in DOMAIN SESSIONS) =>
             /\ ret'.ok \/ ret'.msg # NoSession
             /\ \A sid \in DOMAIN SESSIONS \ {ret'.sid} :
                   SESSIONS'[sid] = SESSIONS[sid]
       /\ (ret'.op = "set_active_session" /\ ret'.sid \in DOMAIN SESSIONS) =>
             /\ ret'.ok
             /\ ACTIVE_SESSION_ID' = ret'.sid
             /\ SESSIONS' = SESSIONS]_vars

\* after a second start_session a move addressed to the first session by
\* its id has succeeded, the second session still being the active one
C38_Witness ==
    /\ ret.op = "move"
    /\ ret.ok
    /\ ret.sid = 1
    /\ ACTIVE_SESSION_ID = 2
    /\ SESSIONS[1].turn = 1
    /\ SESSIONS[2].turn = 0

\* the first session was made active again after the second was started
C38_ReactivatedWitness ==
    /\ ret.op = "set_active_session"
    /\ ret.ok
    /\ ACTIVE_SESSION_ID = 1
    /\ 2 \in DOMAIN SESSIONS

\* the direction tokens move accepts, among those the callers pass
C39_ValidTokens ==
    {"north", "south", "east", "west", "up", "down", "n",
     "forward", "back", "left", "right", " North "}

\* the neighbour of a position in a base direction
C39_Neighbour(pos, dir) ==
    CASE dir = "north" -> Pos(pos.x, pos.y + 1, pos.z)
      [] dir = "south" -> Pos(pos.x, pos.y - 1, pos.z)
      [] dir = "east"  -> Pos(pos.x + 1, pos.y, pos.z)
      [] dir = "west"  -> Pos(pos.x - 1, pos.y, pos.z)
      [] dir = "up"    -> Pos(pos.x, pos.y, pos.z + 1)
      [] dir = "down"  -> Pos(pos.x, pos.y, pos.z - 1)

\* the exits listed by the tile the session stands on
C39_Exits(session) ==
    LET exits == session.tiles[<<session.position.x, session.position.y,
                                 session.position.z>>].tile.exits
    IN  {exits[i] : i \in 1..Len(exits)}

\* C39: a move with a valid direction token on an existing session
\* succeeds whether or not the direction is among the exits of the tile the
\* session stands on (up and down never are): it never fails, and it takes
\* the session to the neighbouring coordinate in the resolved direction,
\* so that coordinates are reached through tiles that list no such exit.
C39_ExitsNeverRestrictMoves ==
    [][(/\ ret'.op = "move"
        /\ ret'.sid \in DOMAIN SESSIONS
        /\ ret'.arg \in C39_ValidTokens)
       => /\ ret'.ok
          /\ SESSIONS'[ret'.sid].turn = SESSIONS[ret'.sid].turn + 1
          /\ \E dir \in _BASE_DIRECTIONS :
                SESSIONS'[ret'.sid].position
                   = C39_Neighbour(SESSIONS[ret'.sid].position, dir)
          /\ ret'.arg \in _BASE_DIRECTIONS =>
                SESSIONS'[ret'.sid].position
                   = C39_Neighbour(SESSIONS[ret'.sid].position, ret'.arg)]_vars

\* a move east succeeded from a tile whose exits do not include east
C39_Witness ==
    /\ ret.op = "move"
    /\ ret.ok
    /\ pre.known
    /\ "east" \notin C39_Exits(pre.session)
    /\ SESSIONS[ret.sid].position
          = C39_Neighbour(pre.session.position, "east")

\* a move up succeeded; no tile lists up among its exits
C39_UpWitness ==
    /\ ret.op = "move"
    /\ ret.ok
    /\ pre.known
    /\ "up" \notin C39_Exits(pre.session)
    /\ SESSIONS[ret.sid].position = C39_Neighbour(pre.session.position, "up")

====
